---- MODULE Spec2Model ----
(***************************************************************************)
(* Model of the traffic-control service: the /process pipeline             *)
(* (ProcessService.process_data_batch), the storage download retry loop    *)
(* (StorageProxy.download_from_storage) and the metadata index             *)
(* (DatabaseService.register_metadata on the metadata_index table).        *)
(***************************************************************************)
EXTENDS Integers, Sequences, FiniteSets, TLC

VARIABLES
    pc,         \* step the current /process request is about to execute
    run,        \* number of /process requests received so far
    data,       \* body of the current /process request
    req,        \* TrafficData handed to ProcessService.process_data_batch
    processed,  \* processed_batch of DataProcessor.process_data_batch
    table,      \* rows of metadata_index
    before,     \* rows of metadata_index when the current request arrived
    steps,      \* pipeline steps finished by the current request, with outcome
    calls,      \* requests sent to the storage and sync collaborators, in order
    writes,     \* register_metadata invocations of the current request
    sleeps,     \* time.sleep(delay) calls of the current download, in order
    dlLog,      \* outcome of each attempt of the current download, in order
    dreq,       \* DownloadRequest of the current download
    attempt,    \* loop variable of download_from_storage
    fetched,    \* result of the download step
    optimized,  \* response of the optimization service
    raised,     \* exception that ended the current request, "none" if none
    responses,  \* HTTP status answered to the current /process request
    prev,       \* the preceding request, when it reached Done
    rpc,        \* per concurrent register_metadata call: its position
    rarg,       \* per concurrent register_metadata call: its triple
    rseen,      \* per concurrent register_metadata call: result of its query
    rexc,       \* per concurrent register_metadata call: exception caught
    session,    \* number of SessionLocal() sessions not closed yet
    fname,      \* function called on its own: its name, "none" before the call
    farg,       \* function called on its own: its argument
    fres        \* function called on its own: what it returned or raised

vars == <<pc, run, data, req, processed, table, before, steps, calls, writes,
          sleeps, dlLog, dreq, attempt, fetched, optimized, raised, responses, prev,
          rpc, rarg, rseen, rexc, session, fname, farg, fres>>

registerVars == <<rpc, rarg, rseen, rexc, session>>

functionVars == <<fname, farg, fres>>

----------------------------------------------------------------------------
(* Bounds of the model *)

MaxRuns == 2

(* Program constants *)

MAX_DOWNLOAD_RETRIES == 5
RETRY_DELAY_BASE == 2
RETRY_DELAY_MAX == 10

Min(a, b) == IF a <= b THEN a ELSE b

SeqSum(s) ==
    LET RECURSIVE go(_)
        go(i) == IF i = 0 THEN 0 ELSE s[i] + go(i - 1)
    IN go(Len(s))

----------------------------------------------------------------------------
(* Timestamps.  TLC integers are 32-bit and 4102444800 does not fit, so  *)
(* every Unix value of the model counts units of 2 seconds: 946684800 s   *)
(* is 473342400, 4102444800 s is 2051222400, one hour is 1800.            *)
(* An ISO-8601 string is represented by the instant its wall-clock fields *)
(* denote in UTC (wall), its offset suffix (zone) and its fraction of a    *)
(* second in tenths (frac); an integer timestamp by form "int"; an        *)
(* unparseable string by form "bad".                                      *)

IsoFrac(w, z, f) == [form |-> "iso", wall |-> w, zone |-> z, frac |-> f]
Iso(w, z) == IsoFrac(w, z, 0)
IntTs(u)  == [form |-> "int", wall |-> u, zone |-> "none", frac |-> 0]
BadTs     == [form |-> "bad", wall |-> 0, zone |-> "none", frac |-> 0]

MIN_TIMESTAMP == 473342400
MAX_TIMESTAMP == 2051222400

\* 1700000000 s, the instant of the request timestamps of the model
T0 == 850000000

ZoneOffset(z) == IF z = "+01:00" THEN 1800 ELSE 0

\* isinstance(timestamp, str)
IsStr(t) == t.form # "int"

\* TimestampValidator.validate_iso_timestamp: a str that fromisoformat parses
\* (a trailing Z replaced by +00:00).  An int has no endswith: AttributeError.
validate_iso_timestamp(t) ==
    IF t.form = "int" THEN [exc |-> "AttributeError", val |-> FALSE]
    ELSE [exc |-> "none", val |-> (t.form = "iso")]

\* TimestampValidator.validate_unix_timestamp of an int
validate_unix_timestamp(u) == MIN_TIMESTAMP <= u /\ u <= MAX_TIMESTAMP

\* iso_to_unix: int(datetime.fromisoformat(s).timestamp()); int() drops the
\* fraction of a second, and no range is checked
iso_to_unix(t) ==
    LET v == validate_iso_timestamp(t) IN
    IF v.exc # "none" THEN [exc |-> v.exc, val |-> 0]
    ELSE IF ~v.val THEN [exc |-> "ValueError", val |-> 0]
    ELSE [exc |-> "none", val |-> t.wall - ZoneOffset(t.zone)]

\* faulty variant of unix_to_iso: the +00:00 suffix is left in place
unix_to_iso_offset(u) ==
    IF ~validate_unix_timestamp(u) THEN [exc |-> "ValueError", val |-> BadTs]
    ELSE [exc |-> "none", val |-> Iso(u, "+00:00")]

\* unix_to_iso of an int: ValueError out of range, else the UTC rendering
\* in whole seconds with +00:00 replaced by Z
unix_to_iso(u) ==
    IF ~validate_unix_timestamp(u) THEN [exc |-> "ValueError", val |-> BadTs]
    ELSE [exc |-> "none", val |-> Iso(u, "Z")]

\* normalize_timestamp: (iso string, unix int) of a str or of an int
normalize_timestamp(t) ==
    IF IsStr(t) THEN
        IF t.form = "iso"
        THEN [exc |-> "none", iso |-> t, unix |-> iso_to_unix(t).val]
        ELSE [exc |-> "ValueError", iso |-> t, unix |-> 0]
    ELSE IF validate_unix_timestamp(t.wall)
         THEN [exc |-> "none", iso |-> unix_to_iso(t.wall).val, unix |-> t.wall]
         ELSE [exc |-> "ValueError", iso |-> t, unix |-> 0]

----------------------------------------------------------------------------
(* Payloads.  A TrafficData body that passed the pydantic schema: sensors *)
(* is the list of sensor ids (<<>> when the field is None), legacy tells  *)
(* whether controlled_edges, metrics and vehicle_stats are all present.   *)

NumericIds == {"5", "6"}

TrafficData(ty, ts, id, sensors, legacy) ==
    [version |-> "2.0", type |-> ty, timestamp |-> ts, traffic_light_id |-> id,
     sensors |-> sensors, legacy |-> legacy]

\* the last is 1999-12-31T23:59:58Z, before the valid range
ReqTimestamps == {Iso(T0, "Z"), Iso(T0, "+01:00"), Iso(MIN_TIMESTAMP - 1, "Z")}

Requests ==
    {TrafficData("data", ts, "5", <<"5">>, FALSE) : ts \in ReqTimestamps}
    \cup {TrafficData("data", Iso(T0, "Z"), "5", <<"5", "6">>, FALSE),
          TrafficData("data", Iso(T0, "Z"), "5", <<>>, TRUE),
          TrafficData("data", Iso(T0, "Z"), "5", <<>>, FALSE),
          TrafficData("optimization", Iso(T0, "Z"), "5", <<"5">>, FALSE)}

NoRequest == TrafficData("none", BadTs, "", <<>>, FALSE)

\* faulty variant of to_batch_format: the inline sensor is not lifted
to_batch_format_unlifted(d) == d

\* TrafficData.is_batch / is_single_sensor / to_batch_format
is_batch(d) == Len(d.sensors) > 0
is_single_sensor(d) == d.legacy
to_batch_format(d) ==
    IF is_batch(d) THEN d
    ELSE TrafficData(d.type, d.timestamp, d.traffic_light_id,
                     <<d.traffic_light_id>>, FALSE)

ALLOWED_TYPES == {"data", "optimization", "batch-optimization"}

\* the characters of the id strings of the model ("5\n" ends in a newline)
Chars(id) ==
    CASE id = "5"   -> <<"5">>
      [] id = "6"   -> <<"6">>
      [] id = "9"   -> <<"9">>
      [] id = "56"  -> <<"5", "6">>
      [] id = "a5"  -> <<"a", "5">>
      [] id = "5\n" -> <<"5", "\n">>
      [] id = "J5"  -> <<"J", "5">>
      [] id = "J6"  -> <<"J", "6">>
      [] id = "JX"  -> <<"J", "X">>
      [] id = "J5_J6" -> <<"J", "5", "_", "J", "6">>
      [] OTHER      -> <<>>

Digits == {"5", "6", "9"}

\* re.match(r'^\d+$', s): one or more digits up to the end of the string,
\* where $ also matches just before a newline that ends the string
MatchDigits(s) ==
    LET c == Chars(s)
        n == IF Len(c) > 0 /\ c[Len(c)] = "\n" THEN Len(c) - 1 ELSE Len(c) IN
    n >= 1 /\ \A i \in 1..n : c[i] \in Digits

\* the keys of TrafficData.dict() and of one sensor of it
DataKeys == {"version", "type", "timestamp", "traffic_light_id", "sensors",
             "controlled_edges", "metrics", "vehicle_stats"}
SensorFields == {"traffic_light_id", "controlled_edges", "metrics", "vehicle_stats"}

\* one entry of a sensors list: a dict with the keys it has, or not a dict
Sensor(id, keys) == [dict |-> TRUE, keys |-> keys, traffic_light_id |-> id]
NotADict == [dict |-> FALSE, keys |-> {}, traffic_light_id |-> ""]

\* a payload dict: the keys it has and their values; list tells whether
\* the value of sensors is a list (None otherwise)
Payload(keys, v, ty, ts, id, list, sensors) ==
    [keys |-> keys, version |-> v, type |-> ty, timestamp |-> ts,
     traffic_light_id |-> id, list |-> list, sensors |-> sensors]

\* TrafficData.dict(): every field is a key, an unset one has value None
TrafficData_dict(d) ==
    Payload(DataKeys, d.version, d.type, d.timestamp, d.traffic_light_id,
            Len(d.sensors) > 0,
            [i \in 1..Len(d.sensors) |-> Sensor(d.sensors[i], SensorFields)])

\* DataValidator.validate_required_fields
validate_required_fields(p, required) ==
    IF required \subseteq p.keys THEN "none" ELSE "ValueError"

\* DataValidator.validate_version: "2.0" matches ^\d+(\.\d+)*$
validate_version(v) == IF v = "2.0" THEN "none" ELSE "ValueError"

\* DataValidator.validate_type
validate_type(ty) == IF ty \in ALLOWED_TYPES THEN "none" ELSE "ValueError"

\* DataValidator.validate_timestamp
validate_timestamp(t) ==
    IF IsStr(t) THEN (IF t.form = "iso" THEN "none" ELSE "ValueError")
    ELSE IF validate_unix_timestamp(t.wall) THEN "none" ELSE "ValueError"

\* DataValidator.validate_traffic_light_id: re.match(r'^\d+$')
validate_traffic_light_id(id) ==
    IF MatchDigits(id) THEN "none" ELSE "ValueError"

\* faulty variant of validate_sensor: the id of the entry is not checked
validate_sensor_anyid(sensor) ==
    IF ~sensor.dict THEN "ValueError"
    ELSE validate_required_fields(sensor, SensorFields)

\* the body of the loop over the sensors in validate_data_specific_fields
validate_sensor(sensor) ==
    IF ~sensor.dict THEN "ValueError"
    ELSE IF validate_required_fields(sensor, SensorFields) # "none"
         THEN "ValueError"
    ELSE validate_traffic_light_id(sensor.traffic_light_id)

\* DataValidator.validate_data_specific_fields: the batch format when the
\* payload has the key sensors, else the legacy single-sensor format
validate_data_specific_fields(p) ==
    IF "sensors" \in p.keys THEN
        IF validate_required_fields(p, {"traffic_light_id", "sensors"}) # "none"
        THEN "ValueError"
        ELSE IF validate_traffic_light_id(p.traffic_light_id) # "none"
             THEN "ValueError"
        ELSE IF ~p.list \/ Len(p.sensors) = 0 THEN "ValueError"
        ELSE IF Len(p.sensors) > 10 THEN "ValueError"
        ELSE IF \E i \in 1..Len(p.sensors) : validate_sensor(p.sensors[i]) # "none"
             THEN "ValueError"
        ELSE IF \A i \in 1..Len(p.sensors) :
                    p.sensors[i].traffic_light_id # p.traffic_light_id
             THEN "ValueError"
        ELSE "none"
    ELSE IF validate_required_fields(p, {"traffic_light_id", "metrics",
                                         "controlled_edges", "vehicle_stats"}) # "none"
         THEN "ValueError"
    ELSE validate_traffic_light_id(p.traffic_light_id)

ValidCategories == {"none", "mild", "severe"}

\* the keys of an optimization result and the members of its optimization
\* and impact blocks
OptKeys == {"version", "type", "timestamp", "traffic_light_id",
            "optimization", "impact"}
OptMembers == {"green_time_sec", "red_time_sec"}
ImpactMembers == {"original_congestion", "optimized_congestion",
                  "original_category", "optimized_category"}

\* an optimization dict: keys holds its keys and the members its blocks
\* have, notdict the blocks that are not dicts ("self": the value itself is
\* not a dict), nonint the members whose value is not an int
OptDict(keys, ts, id, notdict, nonint, green, red, cat1, cat2) ==
    [version |-> "2.0", type |-> "optimization", timestamp |-> ts,
     traffic_light_id |-> id, keys |-> keys, notdict |-> notdict,
     nonint |-> nonint, green_time_sec |-> green, red_time_sec |-> red,
     original_congestion |-> 5, optimized_congestion |-> 3,
     original_category |-> cat1, optimized_category |-> cat2]

\* DataValidator.validate_optimization_specific_fields
validate_optimization_specific_fields(o) ==
    IF validate_required_fields(o, {"optimization", "impact"}) # "none"
    THEN "ValueError"
    ELSE IF "optimization" \in o.notdict THEN "ValueError"
    ELSE IF validate_required_fields(o, OptMembers) # "none" THEN "ValueError"
    ELSE IF "green_time_sec" \in o.nonint \/ o.green_time_sec <= 0
         THEN "ValueError"
    ELSE IF "red_time_sec" \in o.nonint \/ o.red_time_sec <= 0
         THEN "ValueError"
    ELSE IF "impact" \in o.notdict THEN "ValueError"
    ELSE IF validate_required_fields(o, ImpactMembers) # "none" THEN "ValueError"
    ELSE IF "original_congestion" \in o.nonint THEN "ValueError"
    ELSE IF "optimized_congestion" \in o.nonint THEN "ValueError"
    ELSE IF o.original_category \notin ValidCategories THEN "ValueError"
    ELSE IF o.optimized_category \notin ValidCategories THEN "ValueError"
    ELSE "none"

\* a dict of type batch-optimization; list tells whether the value of
\* optimizations is a list
BatchOptimization(keys, ts, list, optimizations) ==
    [keys |-> keys, version |-> "2.0", type |-> "batch-optimization",
     timestamp |-> ts, list |-> list, optimizations |-> optimizations]

\* the body of the loop over the optimizations in validate_payload: the
\* entry is a dict with traffic_light_id, optimization and impact, and its
\* id matches; the members of the blocks are not looked at
validate_batch_entry(e) ==
    IF "self" \in e.notdict THEN "ValueError"
    ELSE IF "traffic_light_id" \notin e.keys THEN "ValueError"
    ELSE IF "optimization" \notin e.keys THEN "ValueError"
    ELSE IF "impact" \notin e.keys THEN "ValueError"
    ELSE validate_traffic_light_id(e.traffic_light_id)

\* validate_payload of a payload dict
validate_payload(p) ==
    IF validate_required_fields(p, {"version", "type", "timestamp"}) # "none"
    THEN "ValueError"
    ELSE IF validate_version(p.version) # "none" THEN "ValueError"
    ELSE IF validate_type(p.type) # "none" THEN "ValueError"
    ELSE IF validate_timestamp(p.timestamp) # "none" THEN "ValueError"
    ELSE IF p.type = "data" THEN validate_data_specific_fields(p)
    ELSE IF p.type = "optimization" THEN
        IF "traffic_light_id" \notin p.keys THEN "ValueError"
        ELSE IF validate_traffic_light_id(p.traffic_light_id) # "none"
             THEN "ValueError"
        ELSE validate_optimization_specific_fields(p)
    ELSE IF validate_required_fields(p, {"reference_id", "sensor_count",
                                         "optimizations"}) # "none"
         THEN "ValueError"
    ELSE IF ~p.list \/ Len(p.optimizations) = 0 THEN "ValueError"
    ELSE IF \E i \in 1..Len(p.optimizations) :
                validate_batch_entry(p.optimizations[i]) # "none"
         THEN "ValueError"
    ELSE "none"

\* validate_data_payload
validate_data_payload(p) == validate_payload(p)

\* DataProcessor.process_data_batch of batch_data.dict(): validate, normalize
\* the timestamp, add the internal _unix_timestamp
DataProcessor_process_data_batch(d) ==
    LET v == validate_data_payload(TrafficData_dict(d))
        n == normalize_timestamp(d.timestamp) IN
    IF v # "none" THEN [exc |-> v, timestamp |-> d.timestamp, unix |-> 0]
    ELSE IF n.exc # "none" THEN [exc |-> n.exc, timestamp |-> d.timestamp, unix |-> 0]
    ELSE [exc |-> "none", timestamp |-> n.iso, unix |-> n.unix]

NoProcessed == [exc |-> "unset", timestamp |-> BadTs, unix |-> 0]

----------------------------------------------------------------------------
(* Exceptions and the HTTP status error_handler_decorator answers *)

IsValueError(e) == e \in {"ValueError", "JSONDecodeError"}

\* error_handler_decorator: ValueError -> 422, any other Exception (an
\* HTTPException raised inside the handler included) -> 500
StatusOf(e) ==
    IF e = "none" THEN 200 ELSE IF IsValueError(e) THEN 422 ELSE 500

\* each helper of ProcessService logs and re-raises: the pipeline stops at
\* the first exception
\* faulty variant of NextPc: the pipeline goes on after an exception
NextPcSwallow(next, e) == next

NextPc(next, e) == IF e = "none" THEN next ELSE "Failed"

----------------------------------------------------------------------------
(* The collaborators' answers to requests.post: a connection error, or a  *)
(* response with a status, whether str(HTTPError) holds "Record not       *)
(* found", and a body.                                                    *)

Response(status, rnf, body) ==
    [kind |-> "response", status |-> status, rnf |-> rnf, body |-> body]
ConnectionError ==
    [kind |-> "connection_error", status |-> 0, rnf |-> FALSE, body |-> "none"]

\* the answer the except HTTPError branch recognises as record-not-found:
\* status 500 and "Record not found" in str(e) (rnf)
RecordNotFound == Response(500, TRUE, "none")

\* requests.post(...); response.raise_for_status(); response.json()
PostExc(r) ==
    IF r.kind = "connection_error" THEN "ConnectionError"
    ELSE IF r.status >= 400 THEN "HTTPError"
    ELSE IF r.body = "malformed" THEN "JSONDecodeError"
    ELSE "none"

UploadResponses ==
    {Response(200, FALSE, "stored"), Response(200, FALSE, "malformed"),
     Response(500, FALSE, "none"), ConnectionError}

\* bodies of a 200 download: the stored envelope (timestamp as int), an
\* envelope without sensors, one whose int timestamp is out of range, no JSON
DownloadResponsesAll ==
    {Response(200, FALSE, b) :
        b \in {"envelope", "no_sensors", "bad_timestamp", "malformed"}}
    \cup {RecordNotFound, Response(500, FALSE, "none"),
          Response(401, FALSE, "none"), ConnectionError}

\* the storage answers the pipeline model draws from
DownloadResponses ==
    {Response(200, FALSE, "envelope"), Response(200, FALSE, "no_sensors"),
     RecordNotFound, Response(401, FALSE, "none"), ConnectionError}

\* an OptimizationResult of the optimizer: every key and member present,
\* green_time_sec as given, the other members valid
OptResult(ts, id, green) ==
    OptDict(OptKeys \cup OptMembers \cup ImpactMembers, ts, id, {}, {},
            green, 60, "mild", "none")

\* an /evaluate body: a single result (dict), a batch wrapper (a dict with
\* an optimizations list), a list of results, or no JSON
OptBody(form, head, items) == [form |-> form, head |-> head, items |-> items]

NoOptimized == OptBody("none", OptResult(BadTs, "", 0), <<>>)

OptBodies ==
    {OptBody("dict", OptResult(Iso(T0, "Z"), "5", 30), <<>>),
     OptBody("dict", OptResult(Iso(T0 + 1, "Z"), "5", 30), <<>>),
     OptBody("dict", OptResult(Iso(T0, "Z"), "5", 0), <<>>),
     OptBody("dict", OptResult(IntTs(T0), "5", 30), <<>>),
     OptBody("wrapper", OptResult(Iso(T0, "Z"), "5", 30),
             <<OptResult(Iso(T0, "Z"), "5", 30), OptResult(Iso(T0, "Z"), "6", 30)>>),
     OptBody("list", OptResult(Iso(T0, "Z"), "5", 30),
             <<OptResult(Iso(T0, "Z"), "5", 30), OptResult(Iso(T0, "Z"), "6", 30)>>),
     OptBody("malformed", OptResult(BadTs, "", 0), <<>>)}

EvaluateResponses ==
    {Response(200, FALSE, b) : b \in OptBodies}
    \cup {Response(500, FALSE, NoOptimized),
          [kind |-> "connection_error", status |-> 0, rnf |-> FALSE,
           body |-> NoOptimized]}

\* response.json() of /evaluate
EvaluateExc(r) ==
    IF r.kind = "connection_error" THEN "ConnectionError"
    ELSE IF r.status >= 400 THEN "HTTPError"
    ELSE IF r.body.form = "malformed" THEN "JSONDecodeError"
    ELSE "none"

----------------------------------------------------------------------------
(* The metadata index: metadata_index holds (type, timestamp,             *)
(* traffic_light_id) rows under the unique constraint uq_metadata_index.  *)

Triple(ty, ts, id) == [type |-> ty, timestamp |-> ts, traffic_light_id |-> id]

\* db.add(entry); db.commit(): the unique constraint refuses a second row
Insert(tbl, t) ==
    IF t \in tbl THEN [exc |-> "IntegrityError", table |-> tbl]
    ELSE [exc |-> "none", table |-> tbl \cup {t}]

RegResult(e, cause, tbl, wrote) ==
    [exc |-> e, cause |-> cause, table |-> tbl, wrote |-> wrote]

\* faulty variant of register_metadata: no query for an existing row
register_metadata_nocheck(tbl, t, db) ==
    IF db = "error"
    THEN RegResult("HTTPException", "OperationalError", tbl, FALSE)
    ELSE IF Insert(tbl, t).exc # "none"
    THEN RegResult("HTTPException", Insert(tbl, t).exc, tbl, FALSE)
    ELSE RegResult("none", "none", Insert(tbl, t).table, TRUE)

\* DatabaseService.register_metadata run alone; db is whether the store
\* works.  Any exception (cause) is rolled back and raised as
\* HTTPException(500) by ErrorHandler.handle_database_error.
register_metadata(tbl, t, db) ==
    IF db = "error"
    THEN RegResult("HTTPException", "OperationalError", tbl, FALSE)
    ELSE IF t \in tbl THEN RegResult("none", "none", tbl, FALSE)
    ELSE IF Insert(tbl, t).exc # "none"
    THEN RegResult("HTTPException", Insert(tbl, t).exc, tbl, FALSE)
    ELSE RegResult("none", "none", Insert(tbl, t).table, TRUE)

WriteEntry(t, r) ==
    [triple |-> t, wrote |-> r.wrote, exc |-> r.exc, cause |-> r.cause]

\* faulty variant of IndividualResults: the top-level result only
IndividualResultsHeadOnly(o) == <<o.head>>

\* the individual results register_optimization_metadata walks
IndividualResults(o) ==
    IF o.form = "list" THEN o.items
    ELSE IF o.form = "wrapper" THEN o.items
    ELSE <<o.head>>

\* DatabaseService.register_optimization_metadata: one register_metadata per
\* individual result, stopping at the first exception; failAt is the call
\* at which the store fails (0: none)
register_optimization_metadata(tbl, o, failAt) ==
    LET items == IndividualResults(o)
        RECURSIVE go(_, _, _)
        go(i, t, w) ==
            IF i > Len(items) THEN [exc |-> "none", table |-> t, writes |-> w]
            ELSE LET u == iso_to_unix(items[i].timestamp) IN
                 IF u.exc # "none" THEN [exc |-> u.exc, table |-> t, writes |-> w]
                 ELSE LET tr == Triple("optimization", u.val, items[i].traffic_light_id)
                          r == register_metadata(t, tr,
                                   IF i = failAt THEN "error" ELSE "ok") IN
                      IF r.exc # "none"
                      THEN [exc |-> r.exc, table |-> t,
                            writes |-> Append(w, WriteEntry(tr, r))]
                      ELSE go(i + 1, r.table, Append(w, WriteEntry(tr, r)))
    IN go(1, tbl, <<>>)

----------------------------------------------------------------------------
(* StorageProxy.download_from_storage *)

DownloadRequest(id, ts, ty) ==
    [traffic_light_id |-> id, timestamp |-> ts, type |-> ty]

NoDownloadRequest == DownloadRequest("", BadTs, "none")

Envelope(ty, ts, id, sensors, has) ==
    [version |-> "2.0", type |-> ty, timestamp |-> ts, traffic_light_id |-> id,
     sensors |-> sensors, has_sensors |-> has]

NoFetched == Envelope("none", BadTs, "", <<>>, FALSE)

\* what the storage service holds under the key of the download request
Stored(request, unix) ==
    Envelope(request.type, IntTs(unix), request.traffic_light_id, req.sensors, TRUE)

\* response.json() of a 200 download
DownloadBody(b, env) ==
    IF b = "no_sensors" THEN [env EXCEPT !.sensors = <<>>, !.has_sensors = FALSE]
    ELSE IF b = "bad_timestamp" THEN [env EXCEPT !.timestamp = IntTs(0)]
    ELSE env

\* delay = min(RETRY_DELAY_BASE * (2 ** attempt), RETRY_DELAY_MAX)
\* faulty variant of RetryDelay: no cap
RetryDelayUncapped(att) == RETRY_DELAY_BASE * (2 ^ att)

RetryDelay(att) == Min(RETRY_DELAY_BASE * (2 ^ att), RETRY_DELAY_MAX)

\* faulty variant of TryDownload: the wall-clock reading of the request
\* timestamp is sent, its UTC offset ignored
TryDownloadWallClock(request, r) ==
    LET u == iso_to_unix(request.timestamp)
        w == request.timestamp.wall
        body == DownloadBody(r.body, Stored(request, w))
        conv == unix_to_iso(body.timestamp.wall) IN
    IF u.exc # "none"
    THEN [exc |-> u.exc, sent |-> FALSE, unix |-> 0, result |-> NoFetched]
    ELSE IF PostExc(r) # "none"
    THEN [exc |-> PostExc(r), sent |-> TRUE, unix |-> w, result |-> NoFetched]
    ELSE IF ~IsStr(body.timestamp) /\ conv.exc # "none"
    THEN [exc |-> conv.exc, sent |-> TRUE, unix |-> w, result |-> NoFetched]
    ELSE [exc |-> "none", sent |-> TRUE, unix |-> w,
          result |-> IF IsStr(body.timestamp) THEN body
                     ELSE [body EXCEPT !.timestamp = conv.val]]

\* the try block of one attempt: convert the request timestamp, post, parse,
\* convert an int timestamp of the result back to ISO
TryDownload(request, r) ==
    LET u == iso_to_unix(request.timestamp)
        body == DownloadBody(r.body, Stored(request, u.val))
        conv == unix_to_iso(body.timestamp.wall) IN
    IF u.exc # "none"
    THEN [exc |-> u.exc, sent |-> FALSE, unix |-> 0, result |-> NoFetched]
    ELSE IF PostExc(r) # "none"
    THEN [exc |-> PostExc(r), sent |-> TRUE, unix |-> u.val, result |-> NoFetched]
    ELSE IF ~IsStr(body.timestamp) /\ conv.exc # "none"
    THEN [exc |-> conv.exc, sent |-> TRUE, unix |-> u.val, result |-> NoFetched]
    ELSE [exc |-> "none", sent |-> TRUE, unix |-> u.val,
          result |-> IF IsStr(body.timestamp) THEN body
                     ELSE [body EXCEPT !.timestamp = conv.val]]

Outcome(next, e, delay) == [next |-> next, exc |-> e, delay |-> delay]

\* the except clauses of one attempt and the bare raise after them: return,
\* continue after time.sleep(delay), or raise
\* faulty variant of HandleDownload: every HTTP error is retried
HandleDownloadRetryHttp(att, e, r) ==
    IF e = "none" THEN Outcome("return", "none", 0)
    ELSE IF e = "HTTPError" THEN
        IF att < MAX_DOWNLOAD_RETRIES - 1
        THEN Outcome("continue", "none", RetryDelay(att))
        ELSE Outcome("raise", "HTTPError", 0)
    ELSE IF att < MAX_DOWNLOAD_RETRIES - 1
         THEN Outcome("continue", "none", RetryDelay(att))
    ELSE Outcome("raise", "RuntimeError", 0)

\* faulty variant of HandleDownload: the loop bound is off by one
HandleDownloadOneMore(att, e, r) ==
    IF e = "none" THEN Outcome("return", "none", 0)
    ELSE IF e = "HTTPError" THEN
        IF r.status = 500 /\ r.rnf THEN
            IF att < MAX_DOWNLOAD_RETRIES
            THEN Outcome("continue", "none", RetryDelay(att))
            ELSE Outcome("raise", "HTTPError", 0)
        ELSE Outcome("raise", "HTTPError", 0)
    ELSE IF att < MAX_DOWNLOAD_RETRIES
         THEN Outcome("continue", "none", RetryDelay(att))
    ELSE Outcome("raise", "RuntimeError", 0)

\* faulty variant of HandleDownload: a wait before the final raise
HandleDownloadSleepLast(att, e, r) ==
    IF e = "none" THEN Outcome("return", "none", 0)
    ELSE IF e = "HTTPError" THEN
        IF r.status = 500 /\ r.rnf THEN
            IF att < MAX_DOWNLOAD_RETRIES - 1
            THEN Outcome("continue", "none", RetryDelay(att))
            ELSE Outcome("raise", "HTTPError", RetryDelay(att))
        ELSE Outcome("raise", "HTTPError", 0)
    ELSE IF att < MAX_DOWNLOAD_RETRIES - 1
         THEN Outcome("continue", "none", RetryDelay(att))
    ELSE Outcome("raise", "RuntimeError", 0)

HandleDownload(att, e, r) ==
    IF e = "none" THEN Outcome("return", "none", 0)
    ELSE IF e = "HTTPError" THEN
        IF r.status = 500 /\ r.rnf THEN
            IF att < MAX_DOWNLOAD_RETRIES - 1
            THEN Outcome("continue", "none", RetryDelay(att))
            ELSE Outcome("raise", "HTTPError", 0)
        ELSE Outcome("raise", "HTTPError", 0)
    ELSE IF att < MAX_DOWNLOAD_RETRIES - 1
         THEN Outcome("continue", "none", RetryDelay(att))
    ELSE Outcome("raise", "RuntimeError", 0)

----------------------------------------------------------------------------
(* Validation and upload of the optimization response *)

\* validate_sync_service_input
validate_sync_service_input(f) ==
    IF f.type # "data" THEN "ValueError"
    ELSE IF ~f.has_sensors THEN "ValueError"
    ELSE IF Len(f.sensors) = 0 THEN "ValueError"
    ELSE IF Len(f.sensors) > 10 THEN "ValueError"
    ELSE "none"

\* validate_optimization_batch_response: a list has none of the required
\* base fields; a dict is checked as a batch wrapper when it has an
\* optimizations list, else as a single result
validate_optimization_batch_response(o) ==
    IF o.form = "list" THEN "ValueError"
    ELSE IF validate_version(o.head.version) # "none" THEN "ValueError"
    ELSE IF o.head.type # "optimization" THEN "ValueError"
    ELSE IF validate_timestamp(o.head.timestamp) # "none" THEN "ValueError"
    ELSE IF validate_traffic_light_id(o.head.traffic_light_id) # "none"
         THEN "ValueError"
    ELSE IF o.form = "wrapper" THEN
        IF Len(o.items) = 0 \/ Len(o.items) > 10 THEN "ValueError"
        ELSE IF \E i \in 1..Len(o.items) :
                    \/ validate_traffic_light_id(o.items[i].traffic_light_id) # "none"
                    \/ validate_optimization_specific_fields(o.items[i]) # "none"
             THEN "ValueError"
        ELSE "none"
    ELSE validate_optimization_specific_fields(o.head)

\* one entry of the optimizations list of an upload; nested counts the
\* optimizations the entry itself carries (a batch wrapper put in the list)
Item(ts, id, nested) == [timestamp |-> ts, traffic_light_id |-> id, nested |-> nested]

\* ProcessService._upload_optimized_data: the batch built from the response
optimization_batch(o) ==
    IF o.form = "list"
    THEN [version |-> o.items[1].version, type |-> "optimization",
          timestamp |-> o.items[1].timestamp,
          traffic_light_id |-> o.items[1].traffic_light_id,
          optimizations |-> [i \in 1..Len(o.items) |->
              Item(o.items[i].timestamp, o.items[i].traffic_light_id, 0)]]
    ELSE [version |-> o.head.version, type |-> "optimization",
          timestamp |-> o.head.timestamp,
          traffic_light_id |-> o.head.traffic_light_id,
          optimizations |-> <<Item(o.head.timestamp, o.head.traffic_light_id,
                                   Len(o.items))>>]

\* str timestamps of a payload become Unix integers
ToUnixIfStr(t) ==
    IF IsStr(t) THEN IntTs(iso_to_unix(t).val) ELSE t

\* StorageProxy.prepare_storage_payload of an optimization batch
prepare_optimization_payload(b) ==
    IF IsStr(b.timestamp) /\ iso_to_unix(b.timestamp).exc # "none"
    THEN [exc |-> iso_to_unix(b.timestamp).exc, payload |-> b]
    ELSE IF \E i \in 1..Len(b.optimizations) :
                /\ IsStr(b.optimizations[i].timestamp)
                /\ iso_to_unix(b.optimizations[i].timestamp).exc # "none"
    THEN [exc |-> "ValueError", payload |-> b]
    ELSE [exc |-> "none",
          payload |-> [b EXCEPT
              !.timestamp = ToUnixIfStr(b.timestamp),
              !.optimizations = [i \in 1..Len(b.optimizations) |->
                  [b.optimizations[i] EXCEPT
                      !.timestamp = ToUnixIfStr(b.optimizations[i].timestamp)]]]]

\* one request sent to a collaborator and the exception the call raised
Call(svc, ty, ts, id, items, r, e) ==
    [svc |-> svc, type |-> ty, timestamp |-> ts, traffic_light_id |-> id,
     optimizations |-> items, status |-> r.status, rnf |-> r.rnf, exc |-> e]

----------------------------------------------------------------------------
(* The /process pipeline: server.process and                              *)
(* ProcessService.process_data_batch, one action per step                 *)

NoPrev == [done |-> FALSE, data |-> NoRequest, optimized |-> NoOptimized]

\* a step ends: it returns and the next step starts, or its exception
\* reaches error_handler_decorator, which answers the request
StepDone(step, e, next) ==
    /\ steps' = Append(steps, [step |-> step, ok |-> (e = "none")])
    /\ pc' = NextPc(next, e)
    /\ raised' = e
    /\ responses' = IF NextPc(next, e) \in {"Done", "Failed"}
                    THEN Append(responses, StatusOf(e))
                    ELSE responses

\* POST /process: a batch goes to process_data_batch as it is, a single
\* sensor after to_batch_format, anything else raises HTTPException(400)
Process(d) ==
    /\ pc \in {"Idle", "Done", "Failed"}
    /\ run < MaxRuns
    /\ run' = run + 1
    /\ prev' = IF pc = "Done"
               THEN [done |-> TRUE, data |-> data, optimized |-> optimized]
               ELSE NoPrev
    /\ data' = d
    /\ before' = table
    /\ steps' = <<>>
    /\ calls' = <<>>
    /\ writes' = <<>>
    /\ sleeps' = <<>>
    /\ dlLog' = <<>>
    /\ dreq' = NoDownloadRequest
    /\ attempt' = 0
    /\ processed' = NoProcessed
    /\ fetched' = NoFetched
    /\ optimized' = NoOptimized
    /\ IF is_batch(d) \/ is_single_sensor(d)
       THEN /\ req' = to_batch_format(d)
            /\ pc' = "Validate"
            /\ raised' = "none"
            /\ responses' = <<>>
       ELSE /\ req' = NoRequest
            /\ pc' = "Failed"
            /\ raised' = "HTTPException"
            /\ responses' = <<StatusOf("HTTPException")>>
    /\ UNCHANGED <<table, registerVars, functionVars>>

\* DataProcessor.process_data_batch(batch_data.dict())
Validate ==
    /\ pc = "Validate"
    /\ LET r == DataProcessor_process_data_batch(req) IN
       /\ processed' = r
       /\ StepDone("Validate", r.exc, "Upload")
    /\ UNCHANGED <<run, data, req, table, before, calls, writes, sleeps, dlLog,
                   dreq, attempt, fetched, optimized, prev, registerVars, functionVars>>

\* faulty variant of Upload: the pipeline goes on after a failed upload
UploadIgnoreFailure(r) ==
    /\ pc = "Upload"
    /\ calls' = Append(calls, Call("upload", req.type, IntTs(processed.unix),
                                   req.traffic_light_id, <<>>, r, PostExc(r)))
    /\ StepDone("Upload", "none", "RegisterMetadata")
    /\ UNCHANGED <<run, data, req, processed, table, before, writes, sleeps,
                   dlLog, dreq, attempt, fetched, optimized, prev, registerVars, functionVars>>

\* faulty variant of Upload: a failed upload is sent again
UploadRetry(r) ==
    /\ pc = "Upload"
    /\ calls' = Append(calls, Call("upload", req.type, IntTs(processed.unix),
                                   req.traffic_light_id, <<>>, r, PostExc(r)))
    /\ IF PostExc(r) = "none"
       THEN StepDone("Upload", "none", "RegisterMetadata")
       ELSE UNCHANGED <<pc, steps, raised, responses>>
    /\ UNCHANGED <<run, data, req, processed, table, before, writes, sleeps,
                   dlLog, dreq, attempt, fetched, optimized, prev, registerVars, functionVars>>

\* ProcessService._upload_batch_to_storage: the payload carries the internal
\* Unix timestamp as its timestamp
Upload(r) ==
    /\ pc = "Upload"
    /\ calls' = Append(calls, Call("upload", req.type, IntTs(processed.unix),
                                   req.traffic_light_id, <<>>, r, PostExc(r)))
    /\ StepDone("Upload", PostExc(r), "RegisterMetadata")
    /\ UNCHANGED <<run, data, req, processed, table, before, writes, sleeps,
                   dlLog, dreq, attempt, fetched, optimized, prev, registerVars, functionVars>>

\* DatabaseService.register_metadata(type, _unix_timestamp, traffic_light_id)
RegisterMetadata(db) ==
    /\ pc = "RegisterMetadata"
    /\ LET t == Triple(req.type, processed.unix, req.traffic_light_id)
           r == register_metadata(table, t, db) IN
       /\ table' = r.table
       /\ writes' = Append(writes, WriteEntry(t, r))
       /\ StepDone("RegisterMetadata", r.exc, "Download")
    /\ dreq' = DownloadRequest(req.traffic_light_id, processed.timestamp, "data")
    /\ attempt' = 0
    /\ UNCHANGED <<run, data, req, processed, before, calls, sleeps, dlLog,
                   fetched, optimized, prev, registerVars, functionVars>>

\* faulty variant of DownloadAttempt: a retry uploads the batch again
DownloadAttemptReupload(r) ==
    /\ pc = "Download"
    /\ attempt < MAX_DOWNLOAD_RETRIES
    /\ LET t == TryDownload(dreq, r)
           h == HandleDownload(attempt, t.exc, r) IN
       /\ calls' = IF h.next = "continue"
                   THEN calls \o <<Call("download", dreq.type, IntTs(t.unix),
                                        dreq.traffic_light_id, <<>>, r, t.exc),
                                   Call("upload", req.type, IntTs(processed.unix),
                                        req.traffic_light_id, <<>>,
                                        Response(200, FALSE, "stored"), "none")>>
                   ELSE Append(calls, Call("download", dreq.type, IntTs(t.unix),
                                           dreq.traffic_light_id, <<>>, r, t.exc))
       /\ dlLog' = Append(dlLog, [exc |-> t.exc,
                                  status |-> IF t.sent THEN r.status ELSE 0,
                                  rnf |-> t.sent /\ r.rnf,
                                  body |-> IF t.sent THEN r.body ELSE "none",
                                  sent |-> t.sent])
       /\ sleeps' = IF h.delay > 0 THEN Append(sleeps, h.delay) ELSE sleeps
       /\ fetched' = IF h.next = "return" THEN t.result ELSE fetched
       /\ IF h.next = "continue"
          THEN /\ attempt' = attempt + 1
               /\ UNCHANGED <<pc, steps, raised, responses>>
          ELSE /\ attempt' = attempt
               /\ StepDone("Download", h.exc, "Optimize")
    /\ UNCHANGED <<run, data, req, processed, table, before, writes, dreq,
                   optimized, prev, registerVars, functionVars>>

\* one iteration of the for loop of download_from_storage
DownloadAttempt(r) ==
    /\ pc = "Download"
    /\ attempt < MAX_DOWNLOAD_RETRIES
    /\ LET t == TryDownload(dreq, r)
           h == HandleDownload(attempt, t.exc, r) IN
       /\ calls' = IF t.sent
                   THEN Append(calls, Call("download", dreq.type, IntTs(t.unix),
                                           dreq.traffic_light_id, <<>>, r, t.exc))
                   ELSE calls
       /\ dlLog' = Append(dlLog, [exc |-> t.exc,
                                  status |-> IF t.sent THEN r.status ELSE 0,
                                  rnf |-> t.sent /\ r.rnf,
                                  body |-> IF t.sent THEN r.body ELSE "none",
                                  sent |-> t.sent])
       /\ sleeps' = IF h.delay > 0 THEN Append(sleeps, h.delay) ELSE sleeps
       /\ fetched' = IF h.next = "return" THEN t.result ELSE fetched
       /\ IF h.next = "continue"
          THEN /\ attempt' = attempt + 1
               /\ UNCHANGED <<pc, steps, raised, responses>>
          ELSE /\ attempt' = attempt
               /\ StepDone("Download", h.exc, "Optimize")
    /\ UNCHANGED <<run, data, req, processed, table, before, writes, dreq,
                   optimized, prev, registerVars, functionVars>>

\* ProcessService._optimize_batch: validate_sync_service_input, then
\* SyncProxy.send_batch_for_optimization
Optimize(r) ==
    /\ pc = "Optimize"
    /\ LET v == validate_sync_service_input(fetched) IN
       IF v # "none"
       THEN /\ StepDone("Optimize", v, "ValidateOptimized")
            /\ UNCHANGED <<calls, optimized>>
       ELSE /\ calls' = Append(calls, Call("evaluate", "data", fetched.timestamp,
                                   req.traffic_light_id, <<>>, r, EvaluateExc(r)))
            /\ optimized' = IF EvaluateExc(r) = "none" THEN r.body ELSE optimized
            /\ StepDone("Optimize", EvaluateExc(r), "ValidateOptimized")
    /\ UNCHANGED <<run, data, req, processed, table, before, writes, sleeps,
                   dlLog, dreq, attempt, fetched, prev, registerVars, functionVars>>

\* ProcessService._validate_optimized_data
ValidateOptimized ==
    /\ pc = "ValidateOptimized"
    /\ StepDone("ValidateOptimized",
                validate_optimization_batch_response(optimized), "UploadOptimized")
    /\ UNCHANGED <<run, data, req, processed, table, before, calls, writes,
                   sleeps, dlLog, dreq, attempt, fetched, optimized, prev,
                   registerVars, functionVars>>

\* ProcessService._upload_optimized_data
UploadOptimized(r) ==
    /\ pc = "UploadOptimized"
    /\ LET p == prepare_optimization_payload(optimization_batch(optimized)) IN
       IF p.exc # "none"
       THEN /\ StepDone("UploadOptimized", p.exc, "RegisterOptimizationMetadata")
            /\ UNCHANGED calls
       ELSE /\ calls' = Append(calls, Call("upload", p.payload.type,
                                   p.payload.timestamp, p.payload.traffic_light_id,
                                   p.payload.optimizations, r, PostExc(r)))
            /\ StepDone("UploadOptimized", PostExc(r), "RegisterOptimizationMetadata")
    /\ UNCHANGED <<run, data, req, processed, table, before, writes, sleeps,
                   dlLog, dreq, attempt, fetched, optimized, prev, registerVars, functionVars>>

\* DatabaseService.register_optimization_metadata, then the success response
RegisterOptimizationMetadata(failAt) ==
    /\ pc = "RegisterOptimizationMetadata"
    /\ failAt \in 0..Len(IndividualResults(optimized))
    /\ LET r == register_optimization_metadata(table, optimized, failAt) IN
       /\ table' = r.table
       /\ writes' = writes \o r.writes
       /\ StepDone("RegisterOptimizationMetadata", r.exc, "Done")
    /\ UNCHANGED <<run, data, req, processed, before, calls, sleeps, dlLog,
                   dreq, attempt, fetched, optimized, prev, registerVars, functionVars>>

MaxResults == 2

Init ==
    /\ pc = "Idle"
    /\ run = 0
    /\ data = NoRequest
    /\ req = NoRequest
    /\ processed = NoProcessed
    /\ table = {}
    /\ before = {}
    /\ steps = <<>>
    /\ calls = <<>>
    /\ writes = <<>>
    /\ sleeps = <<>>
    /\ dlLog = <<>>
    /\ dreq = NoDownloadRequest
    /\ attempt = 0
    /\ fetched = NoFetched
    /\ optimized = NoOptimized
    /\ raised = "none"
    /\ responses = <<>>
    /\ prev = NoPrev
    /\ rpc = <<>>
    /\ rarg = <<>>
    /\ rseen = <<>>
    /\ rexc = <<>>
    /\ session = 0
    /\ fname = "none"
    /\ farg = "none"
    /\ fres = "none"

Next ==
    \/ \E d \in Requests : Process(d)
    \/ Validate
    \/ \E r \in UploadResponses : Upload(r)
    \/ \E db \in {"ok", "error"} : RegisterMetadata(db)
    \/ \E r \in DownloadResponses : DownloadAttempt(r)
    \/ \E r \in EvaluateResponses : Optimize(r)
    \/ ValidateOptimized
    \/ \E r \in UploadResponses : UploadOptimized(r)
    \/ \E k \in 0..MaxResults : RegisterOptimizationMetadata(k)

Spec == Init /\ [][Next]_vars

----------------------------------------------------------------------------
(* download_from_storage called on its own, over every kind of answer of  *)
(* the storage service and a request timestamp that may not parse         *)

DownloadRequests ==
    {DownloadRequest("5", ts, "data") :
        ts \in {Iso(T0, "Z"), Iso(T0, "+01:00"), BadTs}}

InitDownload ==
    /\ pc = "Download"
    /\ run = 1
    /\ data = TrafficData("data", Iso(T0, "Z"), "5", <<"5">>, FALSE)
    /\ req = data
    /\ processed = DataProcessor_process_data_batch(req)
    /\ table = {}
    /\ before = {}
    /\ steps = <<>>
    /\ calls = <<>>
    /\ writes = <<>>
    /\ sleeps = <<>>
    /\ dlLog = <<>>
    /\ dreq \in DownloadRequests
    /\ attempt = 0
    /\ fetched = NoFetched
    /\ optimized = NoOptimized
    /\ raised = "none"
    /\ responses = <<>>
    /\ prev = NoPrev
    /\ rpc = <<>>
    /\ rarg = <<>>
    /\ rseen = <<>>
    /\ rexc = <<>>
    /\ session = 0
    /\ fname = "none"
    /\ farg = "none"
    /\ fres = "none"

NextDownload == \E r \in DownloadResponsesAll : DownloadAttempt(r)

SpecDownload == InitDownload /\ [][NextDownload]_vars

----------------------------------------------------------------------------
(* register_metadata called by concurrent /process requests: each call    *)
(* queries for the triple, then adds and commits; the requests run in     *)
(* threads of the server and interleave between the two                   *)

Callers == {1, 2}

RegTriples ==
    {Triple("data", T0, "5"), Triple("data", T0, "6"),
     Triple("optimization", T0, "5")}

InitRegister ==
    /\ pc = "Idle"
    /\ run = 0
    /\ data = NoRequest
    /\ req = NoRequest
    /\ processed = NoProcessed
    /\ table = {}
    /\ before = {}
    /\ steps = <<>>
    /\ calls = <<>>
    /\ writes = <<>>
    /\ sleeps = <<>>
    /\ dlLog = <<>>
    /\ dreq = NoDownloadRequest
    /\ attempt = 0
    /\ fetched = NoFetched
    /\ optimized = NoOptimized
    /\ raised = "none"
    /\ responses = <<>>
    /\ prev = NoPrev
    /\ rpc = [p \in Callers |-> "idle"]
    /\ rarg = [p \in Callers |-> Triple("none", 0, "")]
    /\ rseen = [p \in Callers |-> FALSE]
    /\ rexc = [p \in Callers |-> "none"]
    /\ session = 0
    /\ fname = "none"
    /\ farg = "none"
    /\ fres = "none"

pipelineVars == <<pc, run, data, req, processed, before, steps, calls, writes,
                  sleeps, dlLog, dreq, attempt, fetched, optimized, raised,
                  responses, prev>>

\* db = SessionLocal(); existing = db.query(MetadataIndex).filter(...).first();
\* a query that fails goes through except and finally, which closes the session
RegQuery(p, t, db) ==
    /\ rpc[p] \in {"idle", "returned", "raised"}
    /\ rarg' = [rarg EXCEPT ![p] = t]
    /\ IF db = "error"
       THEN /\ rpc' = [rpc EXCEPT ![p] = "raised"]
            /\ rexc' = [rexc EXCEPT ![p] = "OperationalError"]
            /\ rseen' = [rseen EXCEPT ![p] = FALSE]
       ELSE /\ rpc' = [rpc EXCEPT ![p] = "queried"]
            /\ rseen' = [rseen EXCEPT ![p] = (t \in table)]
            /\ rexc' = [rexc EXCEPT ![p] = "none"]
    /\ session' = IF db = "error" THEN session ELSE session + 1
    /\ UNCHANGED <<table, pipelineVars, functionVars>>

\* if existing: return; db.add(entry); db.commit(); on an exception
\* db.rollback() and raise HTTPException(500); finally db.close()
RegCommit(p, db) ==
    /\ rpc[p] = "queried"
    /\ IF rseen[p]
       THEN /\ rpc' = [rpc EXCEPT ![p] = "returned"]
            /\ UNCHANGED <<table, rexc>>
       ELSE IF db = "error"
       THEN /\ rpc' = [rpc EXCEPT ![p] = "raised"]
            /\ rexc' = [rexc EXCEPT ![p] = "OperationalError"]
            /\ UNCHANGED table
       ELSE LET r == Insert(table, rarg[p]) IN
            /\ table' = r.table
            /\ rexc' = [rexc EXCEPT ![p] = r.exc]
            /\ rpc' = [rpc EXCEPT ![p] =
                          IF r.exc = "none" THEN "returned" ELSE "raised"]
    /\ session' = session - 1
    /\ UNCHANGED <<rarg, rseen, pipelineVars, functionVars>>

NextRegister ==
    \/ \E p \in Callers, t \in RegTriples, db \in {"ok", "error"} : RegQuery(p, t, db)
    \/ \E p \in Callers, db \in {"ok", "error"} : RegCommit(p, db)

SpecRegister == InitRegister /\ [][NextRegister]_vars

----------------------------------------------------------------------------
(* Properties of the /process pipeline (Spec)                              *)

StepOrder ==
    <<"Validate", "Upload", "RegisterMetadata", "Download", "Optimize",
      "ValidateOptimized", "UploadOptimized", "RegisterOptimizationMetadata">>

StepIndex(name) == CHOOSE i \in 1..Len(StepOrder) : StepOrder[i] = name

\* the step that sends a call to a collaborator
CallStep(c) ==
    IF c.svc = "download" THEN "Download"
    ELSE IF c.svc = "evaluate" THEN "Optimize"
    ELSE IF c.type = "data" THEN "Upload"
    ELSE "UploadOptimized"

\* the step that makes a metadata registration
WriteStep(w) ==
    IF w.triple.type = "data" THEN "RegisterMetadata"
    ELSE "RegisterOptimizationMetadata"

\* the steps that have run or are running
Started == {steps[i].step : i \in 1..Len(steps)} \cup {pc}

CountCalls(svc, ty) ==
    Cardinality({i \in 1..Len(calls) : calls[i].svc = svc /\ calls[i].type = ty})

\* C1: the steps of a request run in the order Validate, Upload,
\* RegisterMetadata, Download, Optimize, ValidateOptimized, UploadOptimized,
\* RegisterOptimizationMetadata, Done; a step runs only after every earlier
\* step succeeded; after the first failing step the request is Failed and
\* no call or metadata write of a later step has been made.
C1_StepOrder ==
    /\ Len(steps) <= Len(StepOrder)
    /\ \A i \in 1..Len(steps) : steps[i].step = StepOrder[i]
    /\ \A i \in 1..(Len(steps) - 1) : steps[i].ok
    /\ (steps # <<>> /\ ~steps[Len(steps)].ok) => pc = "Failed"
    /\ pc = "Done" => (Len(steps) = Len(StepOrder) /\ steps[Len(steps)].ok)
    /\ pc \notin {"Idle", "Done", "Failed"} => pc = StepOrder[Len(steps) + 1]
    /\ \A i \in 1..Len(calls) : CallStep(calls[i]) \in Started
    /\ \A i, j \in 1..Len(calls) :
           i < j => StepIndex(CallStep(calls[i])) <= StepIndex(CallStep(calls[j]))
    /\ \A i \in 1..Len(writes) : WriteStep(writes[i]) \in Started

\* a request failed at Download, after the upload and the registration
C1_Witness ==
    /\ pc = "Failed"
    /\ Len(steps) = 4
    /\ ~steps[4].ok
    /\ Len(writes) = 1
    /\ CountCalls("upload", "data") = 1

\* C6: the optimization service is called at most once per request and
\* each upload is attempted at most once; a failure of any of them is not
\* retried and fails the request.
C6_SingleAttempt ==
    /\ CountCalls("evaluate", "data") <= 1
    /\ CountCalls("upload", "data") <= 1
    /\ CountCalls("upload", "optimization") <= 1
    /\ \A i \in 1..Len(calls) :
           (calls[i].svc \in {"evaluate", "upload"} /\ calls[i].exc # "none")
               => (i = Len(calls) /\ pc = "Failed" /\ raised = calls[i].exc)

\* the optimization service failed and the request failed with it
C6_Witness ==
    /\ pc = "Failed"
    /\ calls # <<>>
    /\ calls[Len(calls)].svc = "evaluate"
    /\ calls[Len(calls)].exc = "HTTPError"
    /\ CountCalls("upload", "data") = 1

IsRecordNotFound(a) == a.exc = "HTTPError" /\ a.status = 500 /\ a.rnf

\* record-not-found on download attempts 1 to 3, the stored data on attempt 4
NotFoundThrice ==
    /\ Len(dlLog) = 4
    /\ \A i \in 1..3 : IsRecordNotFound(dlLog[i])
    /\ dlLog[4].exc = "none"
    /\ dlLog[4].body = "envelope"

\* a single result or a batch wrapper of valid results with ISO timestamps
AcceptedAnswer(o) ==
    /\ o.form \in {"dict", "wrapper"}
    /\ IsStr(o.head.timestamp)
    /\ o.head.green_time_sec > 0
    /\ \A i \in 1..Len(o.items) :
           IsStr(o.items[i].timestamp) /\ o.items[i].green_time_sec > 0

\* every collaborator other than the storage download succeeded
OthersSucceeded ==
    /\ \A i \in 1..Len(calls) : calls[i].svc # "download" => calls[i].exc = "none"
    /\ \A i \in 1..Len(writes) : writes[i].cause # "OperationalError"
    /\ CountCalls("evaluate", "data") > 0 => AcceptedAnswer(optimized)

RowsBefore(i) ==
    before \cup {writes[j].triple : j \in {k \in 1..(i - 1) : writes[k].wrote}}

OptTriples(o) ==
    {Triple("optimization", iso_to_unix(IndividualResults(o)[i].timestamp).val,
            IndividualResults(o)[i].traffic_light_id) :
        i \in 1..Len(IndividualResults(o))}

\* the same request body was processed to Done twice in a row
ProcessedTwice == pc = "Done" /\ prev.done /\ prev.data = data

\* C8 as stated: a registration of a triple that has a row returns without
\* error and without writing, and processing the same request twice leaves
\* the rows that processing it once left.
C8_Original ==
    /\ \A i \in 1..Len(writes) :
           writes[i].triple \in RowsBefore(i)
               => (~writes[i].wrote /\ writes[i].cause # "IntegrityError")
    /\ ProcessedTwice => table = before

\* C8: a registration of a triple that has a row returns without writing
\* and with no error other than a failure of the store itself, and leaves
\* the one row; processing the same request twice leaves the rows that
\* processing it once left when the optimization service returns results
\* with the same timestamps and traffic light ids both times.
C8_Idempotent ==
    /\ \A i \in 1..Len(writes) :
           /\ writes[i].triple \in RowsBefore(i)
                  => (~writes[i].wrote /\ writes[i].cause # "IntegrityError")
           /\ writes[i].cause = "none" => writes[i].exc = "none"
           /\ (writes[i].triple \notin RowsBefore(i) /\ writes[i].exc = "none")
                  => writes[i].wrote
    /\ {writes[i].triple : i \in {k \in 1..Len(writes) : writes[k].wrote}}
           \subseteq table
    /\ (ProcessedTwice /\ OptTriples(prev.optimized) = OptTriples(optimized))
           => (table = before /\ \A i \in 1..Len(writes) : ~writes[i].wrote)

\* the same request processed twice with the same optimization result
C8_Witness ==
    /\ ProcessedTwice
    /\ prev.optimized = optimized
    /\ Len(writes) >= 2
    /\ table # {}

\* the results of an optimization response, one by one
ResultsOf(o) == IF o.form = "dict" THEN <<o.head>> ELSE o.items

ExpectedEntries ==
    <<Triple("data", iso_to_unix(req.timestamp).val, req.traffic_light_id)>>
    \o [i \in 1..Len(ResultsOf(optimized)) |->
           Triple("optimization",
                  iso_to_unix(ResultsOf(optimized)[i].timestamp).val,
                  ResultsOf(optimized)[i].traffic_light_id)]

\* C10: a request that ends Done has registered ("data", timestamp,
\* traffic_light_id) of the request after the first upload and one
\* ("optimization", timestamp, traffic_light_id) entry for each individual
\* optimization result after the optimized upload, and nothing else.
C10_RegisteredEntries ==
    pc = "Done" =>
        /\ Len(writes) = Len(ExpectedEntries)
        /\ \A i \in 1..Len(writes) :
               writes[i].triple = ExpectedEntries[i] /\ writes[i].exc = "none"
        /\ table = before \cup {ExpectedEntries[i] : i \in 1..Len(ExpectedEntries)}
        /\ CountCalls("upload", "data") = 1
        /\ CountCalls("upload", "optimization") = 1

\* a Done request whose optimization response carried two results
C10_Witness ==
    /\ pc = "Done"
    /\ optimized.form = "wrapper"
    /\ Len(writes) = 3
    /\ Cardinality(table) = 3

----------------------------------------------------------------------------
(* Properties of download_from_storage (SpecDownload)                      *)

\* the attempts that were followed by another attempt
Retried == 1..(IF pc = "Download" THEN Len(dlLog) ELSE Len(dlLog) - 1)

C3_AtMostFive ==
    /\ Len(dlLog) <= 5
    /\ CountCalls("download", "data") <= 5
    /\ \A i \in 1..Len(dlLog) :
           dlLog[i].exc = "none" => (i = Len(dlLog) /\ pc = "Optimize")
    /\ (Len(dlLog) = 5 /\ \A i \in 1..5 : IsRecordNotFound(dlLog[i]))
           => (pc = "Failed" /\ raised = "HTTPError")

\* five record-not-found answers in a row
C3_Witness ==
    /\ Len(dlLog) = 5
    /\ \A i \in 1..5 : IsRecordNotFound(dlLog[i])
    /\ CountCalls("download", "data") = 5
    /\ pc = "Failed"

\* C4: the waits between consecutive attempts are 2, 4, 8 and 10 seconds,
\* that is min(2 * 2^k, 10) after attempt k + 1; there is one wait per
\* attempt that is followed by another, none before the first attempt and
\* none after the last.
C4_Backoff ==
    /\ Len(sleeps) <= 4
    /\ \A k \in 1..Len(sleeps) : sleeps[k] = <<2, 4, 8, 10>>[k]
    /\ Len(sleeps) = Cardinality(Retried)

\* four waits, the last one capped
C4_Witness == sleeps = <<2, 4, 8, 10>> /\ Len(dlLog) = 5

FiveNotFound ==
    /\ Len(dlLog) = 5
    /\ \A i \in 1..5 : IsRecordNotFound(dlLog[i])
    /\ pc = "Failed"

\* C5 as stated: a download whose 5 attempts all end in record-not-found
\* has waited 34 seconds in total.
C5_Original == FiveNotFound => SeqSum(sleeps) = 34

\* C5: a download whose 5 attempts all end in record-not-found has waited
\* 2 + 4 + 8 + 10 = 24 seconds in total, there being no wait after the 5th
\* attempt.
C5_TotalWait == FiveNotFound => SeqSum(sleeps) = 24

C5_Witness == FiveNotFound /\ SeqSum(sleeps) = 24

----------------------------------------------------------------------------
(* Properties of concurrent registrations (SpecRegister)                   *)

RegFinished(p) == rpc[p] \in {"returned", "raised"}

\* C9 as stated: two concurrent registrations of the same triple both
\* complete without error and leave one row for it.
C9_ConcurrentRegister ==
    \A p, q \in Callers :
        (/\ p # q
         /\ rarg[p] = rarg[q]
         /\ RegFinished(p) /\ RegFinished(q)
         /\ rexc[p] # "OperationalError" /\ rexc[q] # "OperationalError")
            => (rpc[p] = "returned" /\ rpc[q] = "returned" /\ rarg[p] \in table)

----------------------------------------------------------------------------
(* Properties of the optimization response (Spec)                          *)

\* the results of a response are individually valid OptimizationResults
ValidResults(o) ==
    \A i \in 1..Len(ResultsOf(o)) :
        /\ ResultsOf(o)[i].version = "2.0"
        /\ ResultsOf(o)[i].type = "optimization"
        /\ ResultsOf(o)[i].timestamp.form = "iso"
        /\ ResultsOf(o)[i].traffic_light_id \in NumericIds
        /\ ResultsOf(o)[i].green_time_sec > 0
        /\ ResultsOf(o)[i].original_category \in ValidCategories

\* C11 as stated: when the optimization service returns a non-empty list of
\* individually valid results, the request passes ValidateOptimized (and
\* goes on to the optimized upload and the registrations, as it does for a
\* single valid result).
C11_ListAccepted ==
    (/\ optimized.form = "list"
     /\ Len(optimized.items) > 0
     /\ ValidResults(optimized)
     /\ Len(steps) >= 6)
        => (steps[6].step = "ValidateOptimized" /\ steps[6].ok)

\* the posts of the UploadOptimized step
OptimizedUploads ==
    {i \in 1..Len(calls) :
        calls[i].svc = "upload" /\ calls[i].type = "optimization"}

\* C12 as stated: every payload the UploadOptimized step sends is an
\* envelope of type "optimization" with the traffic_light_id of the first
\* result, whose optimizations list is the individual results of the
\* optimization service, one entry per result and no entry that is itself a
\* batch.
C12_BatchShaped ==
    \A i \in OptimizedUploads :
        /\ calls[i].traffic_light_id = ResultsOf(optimized)[1].traffic_light_id
        /\ Len(calls[i].optimizations) = Len(ResultsOf(optimized))
        /\ \A k \in 1..Len(calls[i].optimizations) :
               /\ calls[i].optimizations[k].nested = 0
               /\ calls[i].optimizations[k].traffic_light_id
                      = ResultsOf(optimized)[k].traffic_light_id

----------------------------------------------------------------------------
(* Properties of the two entry paths of /process (Spec)                    *)

\* the one-element batch payload equivalent to a legacy single-sensor
\* payload: same version, type, timestamp and reference id, the inline
\* sensor as the only entry of sensors
EquivalentBatch(d) ==
    TrafficData(d.type, d.timestamp, d.traffic_light_id,
                <<d.traffic_light_id>>, FALSE)

\* the current request is a legacy single-sensor payload
LegacyRequest == run > 0 /\ data.legacy /\ Len(data.sensors) = 0

\* C13: a legacy single-sensor payload enters the pipeline as the
\* equivalent one-element batch payload does: process_data_batch is handed
\* the same TrafficData, so the validated batch, the requests sent to the
\* collaborators and the metadata triples are those of the batch payload,
\* whatever the collaborators answer.
C13_LegacyAsBatch ==
    LegacyRequest =>
        /\ req = EquivalentBatch(data)
        /\ is_batch(req)
        /\ steps # <<>> =>
               processed = DataProcessor_process_data_batch(EquivalentBatch(data))
        /\ \A i \in 1..Len(calls) :
               calls[i].svc \in {"upload", "download"} /\ calls[i].type = "data"
                   => /\ calls[i].traffic_light_id = data.traffic_light_id
                      /\ calls[i].timestamp = IntTs(data.timestamp.wall)
        /\ \A i \in 1..Len(writes) :
               writes[i].triple.type = "data"
                   => writes[i].triple = Triple("data", data.timestamp.wall,
                                                data.traffic_light_id)

\* a legacy single-sensor request went through the whole pipeline
C13_Witness ==
    /\ LegacyRequest
    /\ pc = "Done"
    /\ Len(calls) >= 4
    /\ Len(writes) >= 2

----------------------------------------------------------------------------
(* Properties of the status POST /process answers (Spec)                   *)

\* the current request is neither batch nor legacy single-sensor
NeitherShape == run > 0 /\ ~is_batch(data) /\ ~is_single_sensor(data)

\* C14 as stated: a request that is neither batch nor legacy single-sensor
\* is answered with status 400, and no pipeline step runs for it.
C14_NeitherShape400 ==
    NeitherShape =>
        /\ responses = <<400>>
        /\ steps = <<>>
        /\ calls = <<>>
        /\ writes = <<>>

\* C15 as stated: 422 is answered only when the inbound payload fails
\* validation (the Validate step), and a request that fails at a later
\* step, that is on an answer of the storage or optimization service or on
\* the persistence store, is answered 500.
C15_StatusByOrigin ==
    /\ responses = <<422>> => (Len(steps) = 1 /\ ~steps[1].ok)
    /\ (pc = "Failed" /\ Len(steps) >= 2) => responses = <<500>>

----------------------------------------------------------------------------
(* Properties of the metadata entries of a request (Spec)                  *)

\* a post to /upload of the current request that succeeded, for envelopes
\* of type ty
UploadedOk(ty) ==
    {j \in 1..Len(calls) :
        calls[j].svc = "upload" /\ calls[j].type = ty /\ calls[j].exc = "none"}

\* C17: a request registers a metadata entry only after the upload of the
\* corresponding envelope succeeded in the same request: a data entry
\* after the upload of the data envelope with the same timestamp and
\* traffic_light_id, an optimization entry after the optimized upload; a
\* request whose first upload fails makes no registration.
C17_EntryAfterUpload ==
    /\ \A i \in 1..Len(writes) :
           /\ UploadedOk(writes[i].triple.type) # {}
           /\ writes[i].triple.type = "data" =>
                  \E j \in UploadedOk("data") :
                      /\ calls[j].timestamp = IntTs(writes[i].triple.timestamp)
                      /\ calls[j].traffic_light_id = writes[i].triple.traffic_light_id
    /\ (\E j \in 1..Len(calls) :
            calls[j].svc = "upload" /\ calls[j].type = "data" /\ calls[j].exc # "none")
           => (writes = <<>> /\ table = before)

\* entries were written for the data and for the optimization
C17_Witness ==
    /\ Len(writes) = 2
    /\ writes[1].wrote /\ writes[1].triple.type = "data"
    /\ writes[2].wrote /\ writes[2].triple.type = "optimization"
    /\ Cardinality(UploadedOk("data")) = 1
    /\ Cardinality(UploadedOk("optimization")) = 1

----------------------------------------------------------------------------
(* Functions called on their own: every variable of the pipeline and of    *)
(* the registrations stays as it is at start                               *)

Quiescent ==
    /\ pc = "Idle"
    /\ run = 0
    /\ data = NoRequest
    /\ req = NoRequest
    /\ processed = NoProcessed
    /\ table = {}
    /\ before = {}
    /\ steps = <<>>
    /\ calls = <<>>
    /\ writes = <<>>
    /\ sleeps = <<>>
    /\ dlLog = <<>>
    /\ dreq = NoDownloadRequest
    /\ attempt = 0
    /\ fetched = NoFetched
    /\ optimized = NoOptimized
    /\ raised = "none"
    /\ responses = <<>>
    /\ prev = NoPrev
    /\ rpc = <<>>
    /\ rarg = <<>>
    /\ rseen = <<>>
    /\ rexc = <<>>
    /\ session = 0

nonFunctionVars == <<pipelineVars, table, registerVars>>

----------------------------------------------------------------------------
(* StorageProxy.upload_to_storage called on a payload of any of the types  *)
(* it is given: a data payload (with or without _unix_timestamp), a single *)
(* optimization result, an optimization batch, or another type             *)

\* a dict handed to upload_to_storage; an entry of optimizations is kept
\* as its timestamp
StoragePayload(ty, ts, hasUnix, unix, hasOpts, opts) ==
    [type |-> ty, timestamp |-> ts, has_unix |-> hasUnix, unix |-> unix,
     has_optimizations |-> hasOpts, optimizations |-> opts]

TsSamples == {Iso(T0, "Z"), Iso(T0, "+01:00"), IntTs(T0), BadTs}

UploadInputs ==
    {StoragePayload("data", ts, FALSE, 0, FALSE, <<>>) : ts \in TsSamples}
    \cup {StoragePayload("data", ts, TRUE, iso_to_unix(ts).val, FALSE, <<>>) :
              ts \in {Iso(T0, "Z"), Iso(T0, "+01:00")}}
    \cup {StoragePayload("optimization", ts, FALSE, 0, FALSE, <<>>) : ts \in TsSamples}
    \cup {StoragePayload("optimization", ts, FALSE, 0, TRUE, <<t1>>) :
              ts \in TsSamples, t1 \in TsSamples}
    \cup {StoragePayload("optimization", ts, FALSE, 0, TRUE, <<t1, t2>>) :
              ts \in TsSamples, t1 \in TsSamples, t2 \in TsSamples}
    \cup {StoragePayload("batch-optimization", ts, FALSE, 0, FALSE, <<>>) :
              ts \in TsSamples}

\* StorageProxy.prepare_storage_payload.  The final else pairs with the
\* test of the type, not with the test for an optimizations key: a dict of
\* type "optimization" without optimizations is left as it is.
prepare_storage_payload(d) ==
    IF d.type = "data" THEN
        IF d.has_unix
        THEN [exc |-> "none",
              payload |-> [d EXCEPT !.timestamp = IntTs(d.unix), !.has_unix = FALSE]]
        ELSE IF IsStr(d.timestamp) /\ iso_to_unix(d.timestamp).exc # "none"
        THEN [exc |-> iso_to_unix(d.timestamp).exc, payload |-> d]
        ELSE [exc |-> "none", payload |-> [d EXCEPT !.timestamp = ToUnixIfStr(@)]]
    ELSE IF d.type = "optimization" THEN
        IF d.has_optimizations THEN
            IF IsStr(d.timestamp) /\ iso_to_unix(d.timestamp).exc # "none"
            THEN [exc |-> iso_to_unix(d.timestamp).exc, payload |-> d]
            ELSE IF \E i \in 1..Len(d.optimizations) :
                        /\ IsStr(d.optimizations[i])
                        /\ iso_to_unix(d.optimizations[i]).exc # "none"
            THEN [exc |-> "ValueError", payload |-> d]
            ELSE [exc |-> "none",
                  payload |-> [d EXCEPT
                      !.timestamp = ToUnixIfStr(@),
                      !.optimizations = [i \in 1..Len(d.optimizations) |->
                                            ToUnixIfStr(d.optimizations[i])]]]
        ELSE [exc |-> "none", payload |-> d]
    ELSE IF IsStr(d.timestamp) /\ iso_to_unix(d.timestamp).exc # "none"
    THEN [exc |-> iso_to_unix(d.timestamp).exc, payload |-> d]
    ELSE [exc |-> "none", payload |-> [d EXCEPT !.timestamp = ToUnixIfStr(@)]]

InitUpload ==
    /\ Quiescent
    /\ fname = "none"
    /\ farg \in UploadInputs
    /\ fres = [exc |-> "unset", sent |-> FALSE, payload |-> farg]

\* upload_to_storage(data): prepare_storage_payload, requests.post,
\* raise_for_status, response.json()
UploadToStorage(r) ==
    /\ fname = "none"
    /\ fname' = "upload_to_storage"
    /\ LET p == prepare_storage_payload(farg) IN
       fres' = IF p.exc # "none"
               THEN [exc |-> p.exc, sent |-> FALSE, payload |-> p.payload]
               ELSE [exc |-> PostExc(r), sent |-> TRUE, payload |-> p.payload]
    /\ UNCHANGED <<farg, nonFunctionVars>>

NextUpload == \E r \in UploadResponses : UploadToStorage(r)

SpecUpload == InitUpload /\ [][NextUpload]_vars

\* C16 as stated: every payload upload_to_storage posts carries Unix
\* integers where the input carried valid ISO strings: the timestamp of a
\* data payload, of a single optimization result, and of an optimization
\* batch together with the timestamp of every result it contains.
C16_UnixOnTheWire ==
    (fname = "upload_to_storage" /\ fres.sent
     /\ farg.type \in {"data", "optimization"}) =>
        /\ farg.timestamp.form = "iso"
               => fres.payload.timestamp = IntTs(iso_to_unix(farg.timestamp).val)
        /\ \A i \in 1..Len(farg.optimizations) :
               farg.optimizations[i].form = "iso"
                   => fres.payload.optimizations[i]
                          = IntTs(iso_to_unix(farg.optimizations[i]).val)

----------------------------------------------------------------------------
(* The functions of utils/time.py and DataValidator.validate_timestamp     *)
(* called on their own, on integers and ISO strings at and around the ends *)
(* of the valid range                                                      *)

UnixSamples ==
    {MIN_TIMESTAMP - 1, MIN_TIMESTAMP, T0, MAX_TIMESTAMP, MAX_TIMESTAMP + 1}

Zones == {"Z", "+00:00", "+01:00"}

TimeInputs ==
    {IntTs(u) : u \in UnixSamples}
    \cup {IsoFrac(w, z, f) : w \in UnixSamples, z \in Zones, f \in {0, 5}}
    \cup {BadTs}

\* what a call returned or raised: the ISO string and the Unix integer
\* among its results, BadTs and 0 where it has none
TimeResult(e, iso, unix) == [exc |-> e, iso |-> iso, unix |-> unix]

\* unix_to_iso of an int or a str: a str that is a valid ISO timestamp is
\* returned as it is, any other str fails in int()
unix_to_iso_of(t) ==
    IF IsStr(t)
    THEN IF t.form = "iso" THEN [exc |-> "none", val |-> t]
         ELSE [exc |-> "ValueError", val |-> BadTs]
    ELSE unix_to_iso(t.wall)

InitTime ==
    /\ Quiescent
    /\ fname = "none"
    /\ farg \in TimeInputs
    /\ fres = TimeResult("unset", BadTs, 0)

CallIsoToUnix ==
    /\ fname = "none"
    /\ fname' = "iso_to_unix"
    /\ fres' = TimeResult(iso_to_unix(farg).exc, BadTs, iso_to_unix(farg).val)
    /\ UNCHANGED <<farg, nonFunctionVars>>

CallUnixToIso ==
    /\ fname = "none"
    /\ fname' = "unix_to_iso"
    /\ fres' = TimeResult(unix_to_iso_of(farg).exc, unix_to_iso_of(farg).val, 0)
    /\ UNCHANGED <<farg, nonFunctionVars>>

CallNormalize ==
    /\ fname = "none"
    /\ fname' = "normalize_timestamp"
    /\ LET n == normalize_timestamp(farg) IN
       fres' = IF n.exc # "none" THEN TimeResult(n.exc, BadTs, 0)
               ELSE TimeResult("none", n.iso, n.unix)
    /\ UNCHANGED <<farg, nonFunctionVars>>

CallValidateTimestamp ==
    /\ fname = "none"
    /\ fname' = "validate_timestamp"
    /\ fres' = TimeResult(validate_timestamp(farg), BadTs, 0)
    /\ UNCHANGED <<farg, nonFunctionVars>>

\* iso_to_unix(unix_to_iso(u)) of an int, unix_to_iso(iso_to_unix(t)) of a str
CallRoundTrip ==
    /\ fname = "none"
    /\ fname' = "round_trip"
    /\ fres' =
         IF IsStr(farg)
         THEN LET u == iso_to_unix(farg) IN
              IF u.exc # "none" THEN TimeResult(u.exc, BadTs, 0)
              ELSE TimeResult(unix_to_iso(u.val).exc, unix_to_iso(u.val).val, u.val)
         ELSE LET i == unix_to_iso_of(farg) IN
              IF i.exc # "none" THEN TimeResult(i.exc, BadTs, 0)
              ELSE TimeResult(iso_to_unix(i.val).exc, i.val, iso_to_unix(i.val).val)
    /\ UNCHANGED <<farg, nonFunctionVars>>

NextTime ==
    \/ CallIsoToUnix
    \/ CallUnixToIso
    \/ CallNormalize
    \/ CallValidateTimestamp
    \/ CallRoundTrip

SpecTime == InitTime /\ [][NextTime]_vars

----------------------------------------------------------------------------
\* the form unix_to_iso writes: whole seconds, UTC, suffix Z
CanonicalIso(t) == t.form = "iso" /\ t.zone = "Z" /\ t.frac = 0

UnixValue(t) == IF t.form = "int" THEN t.wall ELSE t.wall - ZoneOffset(t.zone)

\* C19: iso_to_unix, unix_to_iso, normalize_timestamp and validate_timestamp
\* fail for every timestamp, ISO string or integer, whose Unix value is
\* outside the valid range, and iso_to_unix and normalize_timestamp never
\* return a Unix value outside it.
C19_RangeEnforced ==
    (fname \in {"iso_to_unix", "unix_to_iso", "normalize_timestamp",
                "validate_timestamp"}
     /\ farg.form \in {"int", "iso"}) =>
        /\ ~validate_unix_timestamp(UnixValue(farg)) => fres.exc # "none"
        /\ (fname \in {"iso_to_unix", "normalize_timestamp"} /\ fres.exc = "none")
               => validate_unix_timestamp(fres.unix)

----------------------------------------------------------------------------
(* validate_payload called on its own, on payload dicts whose sensors list *)
(* has 0, 1, 2, 10 or 11 entries, complete and incomplete                   *)

SensorSamples ==
    {Sensor(id, SensorFields) : id \in {"5", "6", "a5", "5\n"}}
    \cup {Sensor("5", SensorFields \ {f}) : f \in SensorFields \ {"traffic_light_id"}}
    \cup {Sensor("", SensorFields \ {"traffic_light_id"}), NotADict}

\* s followed by complete sensors with id "6" up to n entries
PadTo(s, n) ==
    [i \in 1..n |-> IF i <= Len(s) THEN s[i] ELSE Sensor("6", SensorFields)]

ShortLists ==
    {<<>>} \cup {<<a>> : a \in SensorSamples}
           \cup {<<a, b>> : a \in SensorSamples, b \in SensorSamples}

SensorLists ==
    ShortLists \cup {PadTo(s, n) : s \in ShortLists, n \in {10, 11}}

KeySets ==
    {DataKeys, DataKeys \ {"traffic_light_id"}, DataKeys \ {"sensors"},
     DataKeys \ {"sensors", "metrics"},
     {"version", "type", "timestamp", "traffic_light_id", "sensors"}}

BasePayloads ==
    {Payload(k, v, ty, ts, id, TRUE, <<>>) :
        k \in KeySets, v \in {"2.0", "v2"}, ty \in {"data", "optimization"},
        ts \in {Iso(T0, "Z"), BadTs}, id \in {"5", "9"}}

AllOptKeys == OptKeys \cup OptMembers \cup ImpactMembers

\* optimization dicts: a valid one, and ones with one defect each
OptSamples ==
    {OptDict(AllOptKeys, Iso(T0, "Z"), "5", {}, {}, g, r, c1, c2) :
        g \in {30, 0}, r \in {60, 0 - 5},
        c1 \in {"mild", "extreme"}, c2 \in {"none", "extreme"}}
    \cup {OptDict(AllOptKeys, Iso(T0, "Z"), "5", {}, {m}, 30, 60, "mild", "none") :
            m \in {"green_time_sec", "red_time_sec", "original_congestion",
                   "optimized_congestion"}}
    \cup {OptDict(AllOptKeys \ {k}, Iso(T0, "Z"), "5", {}, {}, 30, 60, "mild", "none") :
            k \in {"traffic_light_id", "optimization", "impact", "red_time_sec",
                   "optimized_category"}}
    \cup {OptDict(AllOptKeys, Iso(T0, "Z"), "5", {b}, {}, 30, 60, "mild", "none") :
            b \in {"optimization", "impact", "self"}}
    \cup {OptDict(AllOptKeys, Iso(T0, "Z"), "a5", {}, {}, 30, 60, "mild", "none"),
          OptDict(AllOptKeys, BadTs, "5", {}, {}, 30, 60, "mild", "none")}

BatchKeys == {"version", "type", "timestamp", "reference_id", "sensor_count",
              "optimizations"}

OptLists ==
    {<<>>} \cup {<<a>> : a \in OptSamples}
           \cup {<<a, b>> : a \in OptSamples, b \in OptSamples}

BatchOptimizations ==
    {BatchOptimization(k, Iso(T0, "Z"), TRUE, l) :
        k \in {BatchKeys, BatchKeys \ {"reference_id"}}, l \in OptLists}
    \cup {BatchOptimization(BatchKeys, Iso(T0, "Z"), FALSE, <<>>)}

ValidateInputs ==
    {Payload(k, "2.0", "data", Iso(T0, "Z"), id, TRUE, s) :
        k \in KeySets, id \in {"5", "9", "a5", "5\n"}, s \in SensorLists}
    \cup {Payload(DataKeys, "2.0", "data", Iso(T0, "Z"), "5", FALSE, <<>>)}
    \cup BasePayloads
    \cup {o \in OptSamples : "self" \notin o.notdict}
    \cup BatchOptimizations

InitValidate ==
    /\ Quiescent
    /\ fname = "none"
    /\ farg \in ValidateInputs
    /\ fres = [exc |-> "unset"]

CallValidatePayload ==
    /\ fname = "none"
    /\ fname' = "validate_payload"
    /\ fres' = [exc |-> validate_payload(farg)]
    /\ UNCHANGED <<farg, nonFunctionVars>>

CallValidateDataPayload ==
    /\ fname = "none"
    /\ fname' = "validate_data_payload"
    /\ fres' = [exc |-> validate_data_payload(farg)]
    /\ UNCHANGED <<farg, nonFunctionVars>>

NextValidate ==
    \/ CallValidatePayload
    \/ CallValidateDataPayload

SpecValidate == InitValidate /\ [][NextValidate]_vars

\* a batch envelope with every key, reference id ref and n complete sensors,
\* the first two with ids "5" and "6"
BatchEnvelope(ref, n) ==
    Payload(DataKeys, "2.0", "data", Iso(T0, "Z"), ref, TRUE,
            PadTo(<<Sensor("5", SensorFields), Sensor("6", SensorFields)>>, n))

----------------------------------------------------------------------------
\* an entry that has every key and member and breaks a rule of the
\* optimization type: a time that is not a positive integer, a congestion
\* value that is not an integer, a category outside ValidCategories
BreaksOptimizationRule(e) ==
    /\ "self" \notin e.notdict
    /\ AllOptKeys \subseteq e.keys
    /\ \/ e.nonint # {}
       \/ e.green_time_sec <= 0
       \/ e.red_time_sec <= 0
       \/ e.original_category \notin ValidCategories
       \/ e.optimized_category \notin ValidCategories

\* C21: validate_payload fails for a payload of type batch-optimization
\* whose optimizations list has an entry that breaks a rule of the
\* optimization type.
C21_EntriesValidated ==
    (fname = "validate_payload" /\ farg.type = "batch-optimization"
     /\ \E i \in 1..Len(farg.optimizations) :
            BreaksOptimizationRule(farg.optimizations[i]))
        => fres.exc = "ValueError"

----------------------------------------------------------------------------
(* DataFormatter.normalize_density called on its own.  A density is counted *)
(* in thousandths: 1.0 is 1000, 50.0 veh/km is 50000.                        *)

DENSITY_DIVISOR == 100
MAX_NORMALIZED_DENSITY == 1000

\* raw densities: every thousandth up to FineDensity, then every
\* CoarseStep thousandths up to CoarseStep * CoarseCount
FineDensity == 1200
CoarseStep == 50
CoarseCount == 3020

DensitySamples ==
    (0..FineDensity) \cup {CoarseStep * k : k \in 0..CoarseCount}
                     \cup {500, 1000, 50000, 150000}

\* round(n / d, 3) of n / d thousandths: the nearest thousandth; when n / d
\* lies halfway between two, the binary float nearest to it decides, which
\* the arithmetic on thousandths cannot tell: up says which way it went
Round3(n, d, up) ==
    LET q == n \div d
        r == n % d IN
    IF 2 * r > d THEN q + 1
    ELSE IF 2 * r < d THEN q
    ELSE IF up THEN q + 1 ELSE q

\* faulty variant of normalize_density: 1.0 is divided as well
normalize_density_strict(raw, up) ==
    IF raw < MAX_NORMALIZED_DENSITY THEN raw
    ELSE Round3(Min(raw, DENSITY_DIVISOR * MAX_NORMALIZED_DENSITY),
                DENSITY_DIVISOR, up)

\* DataFormatter.normalize_density: min(raw / 100, 1.0) is taken before the
\* rounding, which is min(raw, 100.0) / 100 rounded
normalize_density(raw, up) ==
    IF raw <= MAX_NORMALIZED_DENSITY THEN raw
    ELSE Round3(Min(raw, DENSITY_DIVISOR * MAX_NORMALIZED_DENSITY),
                DENSITY_DIVISOR, up)

InitDensity ==
    /\ Quiescent
    /\ fname = "none"
    /\ farg \in DensitySamples
    /\ fres = 0

CallNormalizeDensity ==
    /\ fname = "none"
    /\ fname' = "normalize_density"
    /\ \E up \in BOOLEAN : fres' = normalize_density(farg, up)
    /\ UNCHANGED <<farg, nonFunctionVars>>

NextDensity == CallNormalizeDensity

SpecDensity == InitDensity /\ [][NextDensity]_vars

\* C22 as stated: the result of a raw density above 1.0 is exactly
\* min(raw / 100, 1.0)
C22_Original ==
    (fname = "normalize_density" /\ farg > MAX_NORMALIZED_DENSITY)
        => DENSITY_DIVISOR * fres
               = Min(farg, DENSITY_DIVISOR * MAX_NORMALIZED_DENSITY)

\* C22: normalize_density returns a raw density of at most 1.0 unchanged
\* and otherwise min(raw / 100, 1.0) rounded to the nearest thousandth, so
\* the result lies in [0, 1]; 0.5 gives 0.5, 1.0 gives 1.0, 50.0 gives 0.5
\* and 150.0 gives 1.0.
C22_Density ==
    fname = "normalize_density" =>
        /\ farg <= MAX_NORMALIZED_DENSITY => fres = farg
        /\ farg > MAX_NORMALIZED_DENSITY =>
              LET exact == Min(farg, DENSITY_DIVISOR * MAX_NORMALIZED_DENSITY)
                  err == DENSITY_DIVISOR * fres - exact IN
              2 * err <= DENSITY_DIVISOR /\ 2 * err >= 0 - DENSITY_DIVISOR
        /\ fres \in 0..MAX_NORMALIZED_DENSITY
        /\ farg = 500 => fres = 500
        /\ farg = 1000 => fres = 1000
        /\ farg = 50000 => fres = 500
        /\ farg = 150000 => fres = 1000

C22_Witness ==
    /\ fname = "normalize_density"
    /\ farg = 150000
    /\ fres = MAX_NORMALIZED_DENSITY

----------------------------------------------------------------------------
(* DataFormatter.format_raw_to_traffic_data called on its own, on raw       *)
(* payloads the RawSimulationData schema accepts                            *)

IdStrings == {"", "5", "6", "9", "56", "a5", "5\n", "J5", "J6", "JX", "J5_J6"}

\* the string made of the characters c
StringOf(c) == CHOOSE id \in IdStrings : Chars(id) = c

\* DataFormatter.normalize_traffic_light_id: group 1 of re.search(r"(\d+)"),
\* the first maximal run of digits, or the raw id when it has no digit
normalize_traffic_light_id(raw_id) ==
    LET c == Chars(raw_id)
        at == {i \in 1..Len(c) : c[i] \in Digits} IN
    IF at = {} THEN raw_id
    ELSE LET first == CHOOSE i \in at : \A j \in at : i <= j
             last == CHOOSE i \in first..Len(c) :
                        /\ \A j \in first..i : j \in at
                        /\ (i + 1) \notin at
         IN StringOf(SubSeq(c, first, last))

REQUIRED_VEHICLE_TYPES == {"motorcycle", "car", "bus", "truck"}

\* raw vehicle_stats: None, or a dict with the keys given, each with the
\* value count
RawStats(none, keys, count) == [none |-> none, keys |-> keys, count |-> count]

\* DataFormatter.ensure_vehicle_stats: the count of each of the four types
ensure_vehicle_stats(raw_stats, fallback_vehicle_count) ==
    IF raw_stats.none \/ raw_stats.keys = {}
    THEN [v \in REQUIRED_VEHICLE_TYPES |->
             IF v = "car" THEN fallback_vehicle_count ELSE 0]
    ELSE [v \in REQUIRED_VEHICLE_TYPES |->
             IF v \in raw_stats.keys THEN raw_stats.count ELSE 0]

\* a RawSensorData and a RawSimulationData
RawSensor(id, density, stats) ==
    [traffic_light_id |-> id, density |-> density, vehicles_per_minute |-> 7,
     vehicle_stats |-> stats]
RawSimulationData(ts, source, sensors) ==
    [timestamp |-> ts, source_id |-> source, sensors |-> sensors]

\* the pydantic constructors SensorData(...) with VehicleStats(**...), and
\* TrafficData(...): the validators of the schema raise ValidationError
SensorData(id, density, stats) ==
    IF \E v \in REQUIRED_VEHICLE_TYPES : stats[v] < 0 THEN "ValidationError"
    ELSE IF density < 0 \/ density > MAX_NORMALIZED_DENSITY THEN "ValidationError"
    ELSE IF ~MatchDigits(id) THEN "ValidationError"
    ELSE "none"

TrafficData_new(ts, id, ids) ==
    IF ts.form # "iso" THEN "ValidationError"
    ELSE IF ~MatchDigits(id) THEN "ValidationError"
    ELSE IF Len(ids) < 1 \/ Len(ids) > 10 THEN "ValidationError"
    ELSE IF \A i \in 1..Len(ids) : ids[i] # id THEN "ValidationError"
    ELSE "none"

FormatResult(e, d, density, stats) ==
    [exc |-> e, data |-> d, density |-> density, vehicle_stats |-> stats]

\* DataFormatter.format_raw_to_traffic_data; up says which way the rounding
\* of a density went
format_raw_to_traffic_data(raw, up) ==
    LET n == Len(raw.sensors)
        id == normalize_traffic_light_id(raw.source_id)
        ids == [i \in 1..n |->
                   normalize_traffic_light_id(raw.sensors[i].traffic_light_id)]
        dens == [i \in 1..n |-> normalize_density(raw.sensors[i].density, up)]
        stats == [i \in 1..n |->
                     ensure_vehicle_stats(raw.sensors[i].vehicle_stats,
                                          raw.sensors[i].vehicles_per_minute)]
    IN
    IF \E i \in 1..n : SensorData(ids[i], dens[i], stats[i]) # "none"
    THEN FormatResult("ValidationError", NoRequest, <<>>, <<>>)
    ELSE IF TrafficData_new(raw.timestamp, id, ids) # "none"
    THEN FormatResult("ValidationError", NoRequest, <<>>, <<>>)
    ELSE FormatResult("none", TrafficData("data", raw.timestamp, id, ids, FALSE),
                      dens, stats)

RawIds == {"J5", "J6", "JX"}

RawStatsSamples ==
    {RawStats(TRUE, {}, 0), RawStats(FALSE, {"car"}, 3),
     RawStats(FALSE, REQUIRED_VEHICLE_TYPES, 2), RawStats(FALSE, {"bus"}, 0 - 1)}

RawSensors ==
    {RawSensor(id, d, st) : id \in RawIds, d \in {500, 50000},
                            st \in RawStatsSamples}

RawInputs ==
    {RawSimulationData(Iso(T0, "Z"), src, l) :
        src \in {"5", "J5", "JX", "J5_J6"},
        l \in {<<a>> : a \in RawSensors}
              \cup {<<a, b>> : a \in RawSensors, b \in RawSensors}}

InitFormat ==
    /\ Quiescent
    /\ fname = "none"
    /\ farg \in RawInputs
    /\ fres = FormatResult("unset", NoRequest, <<>>, <<>>)

CallFormat ==
    /\ fname = "none"
    /\ fname' = "format_raw_to_traffic_data"
    /\ \E up \in BOOLEAN : fres' = format_raw_to_traffic_data(farg, up)
    /\ UNCHANGED <<farg, nonFunctionVars>>

NextFormat == CallFormat

SpecFormat == InitFormat /\ [][NextFormat]_vars

\* C23: format_raw_to_traffic_data returns a TrafficData for every raw
\* payload the raw schema accepts; a source id or sensor id without a digit
\* is in the result as it was.
C23_FormatCompletes ==
    fname = "format_raw_to_traffic_data" =>
        /\ fres.exc = "none"
        /\ normalize_traffic_light_id(farg.source_id) = farg.source_id
               => fres.data.traffic_light_id = farg.source_id
        /\ \A i \in 1..Len(farg.sensors) :
               farg.sensors[i].traffic_light_id = "JX" => fres.data.sensors[i] = "JX"

----------------------------------------------------------------------------
(* The operations of DatabaseService called one after another on the       *)
(* metadata index.  Each one opens a session, runs its body, and closes    *)
(* the session in its finally clause.                                      *)

MaxRows == 3
MaxLimit == 3

DbTriples ==
    {Triple(ty, ts, id) : ty \in {"data", "optimization"},
                          ts \in {T0, T0 + 1}, id \in {"5", "6"}}

DbArg(t, id, ty, limit) ==
    [triple |-> t, traffic_light_id |-> id, type |-> ty, limit |-> limit]

NoStats == [total_entries |-> 0, data_entries |-> 0, optimization_entries |-> 0,
            batch_entries |-> 0, unique_traffic_lights |-> 0]

\* where the operation is (idle, open, finally, done), the exception it
\* raises, what it returns (rows, count or stats), and the rows of the
\* index when it began
DbResult(at, e, rows, count, stats, tbl) ==
    [pc |-> at, exc |-> e, rows |-> rows, count |-> count, stats |-> stats,
     before |-> tbl]

ListOps == {"get_metadata_by_traffic_light", "get_metadata_by_type",
            "get_recent_metadata"}

DbCalls ==
    {<<"register_metadata", DbArg(t, t.traffic_light_id, t.type, 0)>> :
        t \in DbTriples}
    \cup {<<"get_metadata_by_traffic_light",
            DbArg(Triple("data", T0, id), id, "data", n)>> :
            id \in {"5", "6"}, n \in 0..MaxLimit}
    \cup {<<"get_metadata_by_type", DbArg(Triple(ty, T0, "5"), "5", ty, n)>> :
            ty \in {"data", "optimization"}, n \in 0..MaxLimit}
    \cup {<<"get_recent_metadata", DbArg(Triple("data", T0, "5"), "5", "data", n)>> :
            n \in 0..MaxLimit}
    \cup {<<"delete_metadata_by_traffic_light",
            DbArg(Triple("data", T0, id), id, "data", 0)>> : id \in {"5", "6"}}
    \cup {<<"get_metadata_stats", DbArg(Triple("data", T0, "5"), "5", "data", 0)>>}

\* .filter(...) of each list operation
Matching(op, arg, tbl) ==
    IF op = "get_metadata_by_traffic_light"
    THEN {r \in tbl : r.traffic_light_id = arg.traffic_light_id}
    ELSE IF op = "get_metadata_by_type" THEN {r \in tbl : r.type = arg.type}
    ELSE tbl

\* .order_by(MetadataIndex.timestamp.desc()): the rows in an order of
\* descending timestamp; rows of equal timestamp come in any order
OrderByTimestampDesc(rows) ==
    {o \in [1..Cardinality(rows) -> rows] :
        /\ \A i, j \in 1..Cardinality(rows) : i # j => o[i] # o[j]
        /\ \A i \in 1..(Cardinality(rows) - 1) :
               o[i].timestamp >= o[i + 1].timestamp}

\* faulty variant of Limit: every row is returned
LimitNone(o, n) == o

\* .limit(limit).all()
Limit(o, n) == SubSeq(o, 1, Min(n, Len(o)))

\* get_metadata_stats: the counts it returns
get_metadata_stats(tbl) ==
    [total_entries |-> Cardinality(tbl),
     data_entries |-> Cardinality({r \in tbl : r.type = "data"}),
     optimization_entries |-> Cardinality({r \in tbl : r.type = "optimization"}),
     batch_entries |-> Cardinality({r \in tbl : r.type = "data"}),
     unique_traffic_lights |-> Cardinality({r.traffic_light_id : r \in tbl})]

InitDatabase ==
    /\ Quiescent
    /\ fname = "none"
    /\ farg = DbArg(Triple("data", T0, "5"), "5", "data", 0)
    /\ fres = DbResult("idle", "none", <<>>, 0, NoStats, {})

\* db = SessionLocal()
DbOpen(op, arg) ==
    /\ fres.pc \in {"idle", "done"}
    /\ op = "register_metadata" => Cardinality(table) < MaxRows
    /\ fname' = op
    /\ farg' = arg
    /\ fres' = DbResult("open", "none", <<>>, 0, NoStats, table)
    /\ session' = session + 1
    /\ UNCHANGED <<table, pipelineVars, rpc, rarg, rseen, rexc>>

\* the try block of register_metadata, and its except block
DbRegister(db) ==
    /\ fres.pc = "open"
    /\ fname = "register_metadata"
    /\ LET r == register_metadata(table, farg.triple, db) IN
       /\ table' = r.table
       /\ fres' = [fres EXCEPT !.pc = "finally", !.exc = r.exc]
    /\ UNCHANGED <<fname, farg, pipelineVars, registerVars>>

\* the try block of the three list operations, and their except block
DbList(db) ==
    /\ fres.pc = "open"
    /\ fname \in ListOps
    /\ IF db = "error"
       THEN fres' = [fres EXCEPT !.pc = "finally", !.exc = "HTTPException"]
       ELSE \E o \in OrderByTimestampDesc(Matching(fname, farg, table)) :
               fres' = [fres EXCEPT !.pc = "finally",
                                    !.rows = Limit(o, farg.limit)]
    /\ UNCHANGED <<fname, farg, table, pipelineVars, registerVars>>

\* db.rollback(): the rows the transaction changed are as they were
rollback(committed, pending) == committed

\* faulty variant of DbDelete: the rows of every traffic light are deleted
DbDeleteAll(db) ==
    /\ fres.pc = "open"
    /\ fname = "delete_metadata_by_traffic_light"
    /\ IF db = "error"
       THEN /\ fres' = [fres EXCEPT !.pc = "finally", !.exc = "HTTPException"]
            /\ UNCHANGED table
       ELSE /\ table' = {}
            /\ fres' = [fres EXCEPT !.pc = "finally",
                                    !.count = Cardinality(table)]
    /\ UNCHANGED <<fname, farg, pipelineVars, registerVars>>

\* the try block of delete_metadata_by_traffic_light: the rows of the
\* traffic light are deleted and the deletion committed; on an exception
\* db.rollback() leaves the index as it was
DbDelete(db) ==
    /\ fres.pc = "open"
    /\ fname = "delete_metadata_by_traffic_light"
    /\ LET gone == {r \in table : r.traffic_light_id = farg.traffic_light_id} IN
       IF db = "error"
       THEN /\ fres' = [fres EXCEPT !.pc = "finally", !.exc = "HTTPException"]
            /\ table' = rollback(table, table \ gone)
       ELSE /\ table' = table \ gone
            /\ fres' = [fres EXCEPT !.pc = "finally",
                                    !.count = Cardinality(gone)]
    /\ UNCHANGED <<fname, farg, pipelineVars, registerVars>>

\* the try block of get_metadata_stats
DbStats(db) ==
    /\ fres.pc = "open"
    /\ fname = "get_metadata_stats"
    /\ IF db = "error"
       THEN fres' = [fres EXCEPT !.pc = "finally", !.exc = "HTTPException"]
       ELSE fres' = [fres EXCEPT !.pc = "finally",
                                 !.stats = get_metadata_stats(table)]
    /\ UNCHANGED <<fname, farg, table, pipelineVars, registerVars>>

\* faulty variant of DbClose: the session is closed only when the body
\* raised nothing
DbCloseOnSuccess ==
    /\ fres.pc = "finally"
    /\ fres' = [fres EXCEPT !.pc = "done"]
    /\ session' = IF fres.exc = "none" THEN session - 1 ELSE session
    /\ UNCHANGED <<fname, farg, table, pipelineVars, rpc, rarg, rseen, rexc>>

\* finally: db.close()
DbClose ==
    /\ fres.pc = "finally"
    /\ fres' = [fres EXCEPT !.pc = "done"]
    /\ session' = session - 1
    /\ UNCHANGED <<fname, farg, table, pipelineVars, rpc, rarg, rseen, rexc>>

NextDatabase ==
    \/ \E c \in DbCalls : DbOpen(c[1], c[2])
    \/ \E db \in {"ok", "error"} : DbRegister(db)
    \/ \E db \in {"ok", "error"} : DbList(db)
    \/ \E db \in {"ok", "error"} : DbDelete(db)
    \/ \E db \in {"ok", "error"} : DbStats(db)
    \/ DbClose

SpecDatabase == InitDatabase /\ [][NextDatabase]_vars

----------------------------------------------------------------------------
\* the filter of a list operation, said of one row
SatisfiesFilter(op, arg, r) ==
    /\ op = "get_metadata_by_traffic_light"
           => r.traffic_light_id = arg.traffic_light_id
    /\ op = "get_metadata_by_type" => r.type = arg.type

\* a list operation has returned
Listed == fname \in ListOps /\ fres.pc \in {"finally", "done"} /\ fres.exc = "none"

\* C24: a list operation returns at most limit rows of the index, each of
\* which satisfies the filter, in descending order of timestamp, no row
\* twice; no matching row left out has a larger timestamp than a returned
\* one, and rows are left out only when limit is reached; the index is as
\* it was before the call.
C24_ListBounded ==
    Listed =>
        LET rows == fres.rows
            left == {r \in fres.before :
                        /\ SatisfiesFilter(fname, farg, r)
                        /\ \A i \in 1..Len(rows) : rows[i] # r} IN
        /\ Len(rows) <= farg.limit
        /\ \A i \in 1..Len(rows) :
               rows[i] \in fres.before /\ SatisfiesFilter(fname, farg, rows[i])
        /\ \A i, j \in 1..Len(rows) :
               /\ i < j => rows[i].timestamp >= rows[j].timestamp
               /\ i # j => rows[i] # rows[j]
        /\ \A r \in left : \A i \in 1..Len(rows) : rows[i].timestamp >= r.timestamp
        /\ left # {} => Len(rows) = farg.limit
        /\ table = fres.before

C24_Witness ==
    /\ Listed
    /\ fname = "get_metadata_by_type"
    /\ fres.pc = "done"
    /\ farg.limit = 2
    /\ Cardinality({r \in table : r.type = farg.type}) = 3
    /\ Len(fres.rows) = 2
    /\ fres.rows[1].timestamp > fres.rows[2].timestamp

\* an operation of DatabaseService has run its body
BodyDone == fres.pc \in {"finally", "done"}

\* C25: a delete_metadata_by_traffic_light that returns has removed the rows
\* of its traffic light and no other, and returns their number; after the
\* body of any other operation every row that was in the index is still in
\* it.
C25_DeleteExact ==
    BodyDone =>
        IF fname = "delete_metadata_by_traffic_light"
        THEN fres.exc = "none" =>
                /\ table = {r \in fres.before :
                               r.traffic_light_id # farg.traffic_light_id}
                /\ fres.count = Cardinality(fres.before) - Cardinality(table)
        ELSE fres.before \subseteq table

C25_Witness ==
    /\ BodyDone
    /\ fname = "delete_metadata_by_traffic_light"
    /\ fres.exc = "none"
    /\ fres.count = 2
    /\ Cardinality(table) = 1

\* C27: a session is open only while an operation of DatabaseService runs:
\* once the operation is over, whether it returned (the early return of a
\* duplicate register_metadata included) or raised, the session is closed;
\* and after a register_metadata or delete_metadata_by_traffic_light that
\* raised, the index is as it was before the call.
C27_SessionReleased ==
    /\ fres.pc \in {"idle", "done"} => session = 0
    /\ fres.pc \in {"open", "finally"} => session = 1
    /\ (BodyDone /\ fres.exc # "none"
        /\ fname \in {"register_metadata", "delete_metadata_by_traffic_light"})
           => table = fres.before

C27_Witness ==
    /\ fres.pc = "done"
    /\ fname = "delete_metadata_by_traffic_light"
    /\ fres.exc = "HTTPException"
    /\ \E r \in table : r.traffic_light_id = farg.traffic_light_id
    /\ session = 0

----------------------------------------------------------------------------
\* C26: when the download gives up, the exception it propagates is the one
\* the last attempt raised.
C26_CausePreserved ==
    (pc = "Failed" /\ Len(dlLog) > 0 /\ Len(steps) > 0
     /\ steps[Len(steps)].step = "Download")
        => raised = dlLog[Len(dlLog)].exc

----------------------------------------------------------------------------
\* C28: every row of metadata_index written by a /process run has a
\* timestamp of the valid range, and a request whose timestamp denotes an
\* instant outside the range has no upload sent and no row written.
C28_EntriesInRange ==
    /\ \A t \in table : validate_unix_timestamp(t.timestamp)
    /\ (req.timestamp.form = "iso"
        /\ ~validate_unix_timestamp(UnixValue(req.timestamp)))
           => (CountCalls("upload", "data") = 0 /\ writes = <<>>)

\* the exceptions a failing collaborator gives the two last steps: the
\* storage post of UploadOptimized, the store of register_metadata
CollaboratorFailures ==
    {PostExc(r) : r \in UploadResponses} \cup {"HTTPException"}

\* C29 as stated: once ValidateOptimized has accepted the response, a run
\* that fails in UploadOptimized or RegisterOptimizationMetadata fails with
\* the exception of a failing collaborator, never with an error the steps
\* raise on their own (a response with a valid Unix integer timestamp and a
\* batch wrapper included).
C29_CarriedThrough ==
    (/\ pc = "Failed"
     /\ Len(steps) > 0
     /\ steps[Len(steps)].step \in {"UploadOptimized", "RegisterOptimizationMetadata"})
        => raised \in CollaboratorFailures \ {"none"}

\* the posts to the storage service of the current run, by kind
DataUploads ==
    {i \in 1..Len(calls) : calls[i].svc = "upload" /\ calls[i].type = "data"}

Downloads == {i \in 1..Len(calls) : calls[i].svc = "download"}

\* the key of a post to the storage service
KeyOf(c) == Triple(c.type, c.timestamp.wall, c.traffic_light_id)

\* C30: within one run every download request carries the
\* (traffic_light_id, Unix timestamp, type) of the envelope of the first
\* upload, and that key is the triple registered as data metadata, whatever
\* accepted timestamp the request has.
C30_SameKey ==
    /\ \A d \in Downloads :
           /\ ~IsStr(calls[d].timestamp)
           /\ calls[1].svc = "upload"
           /\ ~IsStr(calls[1].timestamp)
           /\ KeyOf(calls[d]) = KeyOf(calls[1])
           /\ Len(writes) > 0
           /\ writes[1].triple = KeyOf(calls[d])
    /\ \A u \in DataUploads : Len(writes) > 0 => writes[1].triple = KeyOf(calls[u])

\* a second download attempt of a request whose timestamp has a UTC offset,
\* after the upload and the registration of the run
C30_Witness ==
    /\ req.timestamp.form = "iso"
    /\ req.timestamp.zone = "+01:00"
    /\ Cardinality(Downloads) >= 2
    /\ Cardinality(DataUploads) = 1
    /\ Len(writes) > 0
    /\ writes[1].wrote

====
